---- MODULE Spec2Model ----
(***************************************************************************)
(* A model of mentat's edit engine (src/mentat/parsers/file_edit.py) and   *)
(* of the part of the session main loop that validates the edits of a      *)
(* model response (src/mentat/session.py).                                 *)
(*                                                                         *)
(* Line numbers are 0-indexed and ranges half-open, as in the source; a    *)
(* TLA+ sequence is 1-indexed, so Python's  lines[a:b]  is  Slice(lines,   *)
(* a, b)  below.  A line of text is a string; a path is the sequence of    *)
(* its components.                                                         *)
(***************************************************************************)
EXTENDS Integers, Sequences, FiniteSets, TLC

(***************************************************************************)
(* Bounds of the model.                                                    *)
(***************************************************************************)
\* the longest replacement list of a FileEdit
MaxReps == 2
\* the largest line number a replacement names
MaxLine == 2
\* the number of new_lines of a replacement that is not a pure removal
MaxNew == 1
\* the longest file (tracked line list) handed to the applier
MaxFile == 2
\* the most FileEdits in one model response
MaxEdits == 2
\* the most client callbacks (calls of start or stop) the event loop is given,
\* so also the most tasks of either kind
MaxCalls == 4
\* the most units add_string puts on the deque of a StreamingPrinter
MaxUnits == 4
\* the largest backlog sleep_time is called with
MaxChars == 600
\* the longest string the user types, the command lines apart
MaxInput == 2
\* the most iterations of the loop of Session._main
MaxTurns == 2
\* the most exit signals (SIGINT or SIGTERM) the engine is sent
MaxSignals == 3
\* the most iterations of the loop of MentatEngine._main_loop without a signal
MaxTicks == 4
\* counter = counter % 86400 (engine.py:120)
CounterModulus == 86400

\* earliest_line = None (file_edit.py:200); line numbers are >= 0
NoLine == -1

\* rename_file_path = None (file_edit.py:70); a path has at least one component
None == <<>>

\* the text of the files' lines and of the replacements' new lines
FileText == <<"f0", "f1", "f2", "f3", "f4", "f5", "f6", "f7">>
NewText ==
    << <<"a0", "a1", "a2", "a3">>, <<"b0", "b1", "b2", "b3">>,
       <<"c0", "c1", "c2", "c3">>, <<"d0", "d1", "d2", "d3">>,
       <<"e0", "e1", "e2", "e3">>, <<"g0", "g1", "g2", "g3">> >>

VARIABLES
    file_edit,      \* the FileEdit object: file_path, replacements, is_creation,
                    \* is_deletion, rename_file_path
    file_lines,     \* the caller's line list of the file (the tracked baseline)
    constructed,    \* file_edit.replacements as the parser constructed the object
    last_op,        \* the method of file_edit called last ("none" after construction)
    before,         \* file_edit.replacements and file_lines when that call started
    resolved,       \* resolve_conflicts has run on file_edit
    reviewed,       \* filter_replacements has run on file_edit
    notices,        \* what _print_resolution printed during the last resolve_conflicts
    resolve_steps,  \* self.replacements after the sort and after each assignment
                    \* of the last resolve_conflicts, in order, with the line
    prompts,        \* the prompts of the last filter_replacements, in order
    answers,        \* what the user answered to them, in the same order
    kept,           \* what the last filter_replacements returned
    result          \* what the last get_updated_file_lines returned or raised

editVars == <<file_edit, file_lines, constructed, last_op, before, resolved, reviewed,
              notices, resolve_steps, prompts, answers,
              kept, result>>

VARIABLES
    on_disk,        \* the paths that exist on disk (Path.exists())
    tracked,        \* the keys of code_file_manager.file_lines: paths relative to
                    \* config.git_root
    response,       \* the FileEdits conv.get_model_response returned
    file_edits,     \* the local file_edits of Session._main
    main_pc,        \* where Session._main is ("none": not in the loop)
    need_user_request,  \* the local need_user_request of Session._main
    is_valid_calls, \* the calls of is_valid so far, in order: the FileEdit before
                    \* and after the call and what the call returned
    printed,        \* what is_valid printed so far
    feedback_edits, \* the list handed to get_user_feedback_on_edits
    main_exception, \* the exception that escaped Session._main ("none": none did)
    user_inputs,    \* the messages collect_user_input returned so far, in order
    applied,        \* the commands whose apply was awaited so far, in order
    turns           \* the iterations of the loop of Session._main begun so far

validVars == <<on_disk, tracked, response, file_edits, main_pc, need_user_request,
               is_valid_calls, printed, feedback_edits, main_exception,
               user_inputs, applied, turns>>

VARIABLES
    main_task,      \* Session._main_task: the id of a main task, or NoTask for None
    stop_task,      \* Session._stop_task: the id of a stop task, or NoTask for None
    main_st,        \* of every main task (asyncio.Task of run_main), where it is
    main_cancel,    \* of every main task, whether CancelledError is thrown into it
                    \* at its next step
    stop_st,        \* of every stop task (asyncio.Task of run_stop), where it is
    n_main,         \* the number of main tasks created so far
    n_stop,         \* the number of stop tasks created so far
    ready,          \* the event loop's queue of ready callbacks, first in first out
    calls,          \* the number of client callbacks that have arrived
    ran,            \* the callback the event loop ran last, and what came of it
    stop_log,       \* of every stop task, the steps of run_stop it has taken
    errors          \* what was reported as an error, by the logger or the loop

sessVars == <<main_task, stop_task, main_st, main_cancel, stop_st, n_main, n_stop,
              ready, calls, ran, stop_log, errors>>

VARIABLES
    strings_to_print,   \* StreamingPrinter.strings_to_print: the deque of units
    chars_remaining,    \* StreamingPrinter.chars_remaining
    shutdown,           \* StreamingPrinter.shutdown
    drain_pc,           \* where print_lines is ("none": not running)
    in_hand,            \* next_string of print_lines while it is being sent
    sent,               \* the units stream.send has been given, in order
    enqueued,           \* the units add_string has put on the deque, in order
    at_wrap,            \* the deque at the first call of wrap_it_up
    last_sleep,         \* what sleep_time returned last, as <<numerator, denominator>>
    last_add            \* the last call of add_string: its string and end, and
                        \* what shutdown was

printVars == <<strings_to_print, chars_remaining, shutdown, drain_pc, in_hand, sent,
               enqueued, at_wrap, last_sleep,
              last_add>>

VARIABLES
    should_exit,    \* MentatEngine._should_exit
    force_exit,     \* MentatEngine._force_exit
    tasks,          \* MentatEngine._tasks: the tracked tasks
    heartbeat_st,   \* where the task of heartbeat() is ("none": not created)
    heartbeat_cancel,   \* CancelledError is to be thrown into it at its next step
    run_pc,         \* where MentatEngine._run is ("none": not called)
    counter,        \* the local counter of _main_loop
    signals,        \* the exit signals handled so far
    wait_ended      \* how the wait of _shutdown ended ("none": it has not)

engVars == <<should_exit, force_exit, tasks, heartbeat_st, heartbeat_cancel, run_pc,
             counter, signals, wait_ended>>

loopVars == <<sessVars, printVars, engVars>>

vars == <<editVars, validVars, loopVars>>

Min(a, b) == IF a < b THEN a ELSE b

\* Python's lines[a:b] for 0 <= a, 0 <= b
Slice(lines, a, b) == SubSeq(lines, a + 1, Min(b, Len(lines)))

\* Python's [x] * n
RECURSIVE Repeat(_, _)
Repeat(x, n) == IF n <= 0 THEN <<>> ELSE <<x>> \o Repeat(x, n - 1)

(***************************************************************************)
(* Replacement and its order.                                              *)
(***************************************************************************)
\* Replacement(starting_line, ending_line, new_lines); id is the object's identity
Replacement(id, s, e, nl) ==
    [id |-> id, starting_line |-> s, ending_line |-> e, new_lines |-> nl]

\* a variant of __lt__ that compares the wrong way round
ReplacementLtReversed(self, other) ==
    \/ self.ending_line > other.ending_line
    \/ /\ self.ending_line = other.ending_line
       /\ self.starting_line > other.ending_line

\* Replacement.__lt__(self, other)
ReplacementLt(self, other) ==
    \/ self.ending_line < other.ending_line
    \/ /\ self.ending_line = other.ending_line
       /\ self.starting_line < other.ending_line

Reverse(s) == [i \in 1..Len(s) |-> s[Len(s) + 1 - i]]

\* list.sort's count_run: the index of the last element of the run that starts
\* the list; the run is strictly descending when desc, else non-descending
RECURSIVE RunEnd(_, _, _)
RunEnd(s, i, desc) ==
    IF i = Len(s) THEN i
    ELSE IF ReplacementLt(s[i + 1], s[i]) = desc THEN RunEnd(s, i + 1, desc)
    ELSE i

\* list.sort's binarysort: where pivot goes among the sorted s[1..k-1], found by
\* bisection between l and r
RECURSIVE BisectRight(_, _, _, _)
BisectRight(s, pivot, l, r) ==
    LET p == l + ((r - l) \div 2)
        l2 == IF ReplacementLt(pivot, s[p]) THEN l ELSE p + 1
        r2 == IF ReplacementLt(pivot, s[p]) THEN p ELSE r
    IN IF l2 < r2 THEN BisectRight(s, pivot, l2, r2) ELSE l2

\* list.sort's binarysort: s[1..k-1] is sorted; insert s[k], s[k+1], ... in turn
RECURSIVE BinarySort(_, _)
BinarySort(s, k) ==
    IF k > Len(s) THEN s
    ELSE LET at == BisectRight(s, s[k], 1, k)
         IN BinarySort(SubSeq(s, 1, at - 1) \o <<s[k]>> \o SubSeq(s, at, k - 1)
                           \o SubSeq(s, k + 1, Len(s)),
                       k + 1)

\* list.sort() of a list shorter than 64 elements: one run, extended to the
\* whole list by binary insertion
ListSort(s) ==
    IF Len(s) < 2 THEN s
    ELSE LET desc == ReplacementLt(s[2], s[1])
             n == RunEnd(s, 2, desc)
             run == IF desc THEN Reverse(SubSeq(s, 1, n)) ELSE SubSeq(s, 1, n)
         IN BinarySort(run \o SubSeq(s, n + 1, Len(s)), n + 1)

\* self.replacements.sort(reverse=True): reverse, sort, reverse
SortReverse(s) == Reverse(ListSort(Reverse(s)))

(***************************************************************************)
(* FileEdit.resolve_conflicts                                              *)
(***************************************************************************)
\* a variant of the overlap test that lost its first half
OverlapConflictStartOnly(replacement, other) ==
    other.starting_line < replacement.ending_line

\* the test of the overlap branch
OverlapConflict(replacement, other) ==
    /\ other.ending_line > replacement.starting_line
    /\ other.starting_line < replacement.ending_line

\* the test of the insertion branch
InsertionConflict(replacement, other) ==
    /\ other.ending_line = other.starting_line
    /\ replacement.ending_line = replacement.starting_line
    /\ replacement.starting_line = other.starting_line

\* a variant of the truncation that cuts at the wrong boundary
TruncateToEnd(replacement, other) ==
    [other EXCEPT !.ending_line = replacement.ending_line,
                  !.starting_line = Min(other.starting_line, replacement.ending_line)]

\* a truncation without its second assignment: the start is left where it was
TruncateWithoutClamp(replacement, other) ==
    [other EXCEPT !.ending_line = replacement.starting_line]

\* the body of the overlap branch: other, truncated to end where replacement starts
Truncate(replacement, other) ==
    [other EXCEPT !.ending_line = replacement.starting_line,
                  !.starting_line = Min(other.starting_line, replacement.starting_line)]

\* what _print_resolution(first, second) prints: the lines of both, first's first
PrintResolution(first, second) == first.new_lines \o second.new_lines

\* the inner loop: replacement is reps[index], other runs over reps[index+1:]
RECURSIVE ResolveInner(_, _, _, _)
ResolveInner(reps, out, index, j) ==
    IF j > Len(reps) THEN [reps |-> reps, out |-> out]
    ELSE LET replacement == reps[index]
             other == reps[j]
         IN IF OverlapConflict(replacement, other)
            THEN ResolveInner([reps EXCEPT ![j] = Truncate(replacement, other)],
                              Append(out, PrintResolution(other, replacement)),
                              index, j + 1)
            ELSE IF InsertionConflict(replacement, other)
            THEN ResolveInner(reps, Append(out, PrintResolution(replacement, other)),
                              index, j + 1)
            ELSE ResolveInner(reps, out, index, j + 1)

\* the outer loop over the sorted list
RECURSIVE ResolveOuter(_, _, _)
ResolveOuter(reps, out, index) ==
    IF index > Len(reps) THEN [reps |-> reps, out |-> out]
    ELSE LET r == ResolveInner(reps, out, index, index + 1)
         IN ResolveOuter(r.reps, r.out, index + 1)

\* line 186 alone: other after the first assignment of the overlap branch
AssignEndingLine(replacement, other) ==
    [other EXCEPT !.ending_line = replacement.starting_line]

\* the list after each assignment of the inner loop, in order: for an overlap
\* conflict after line 186 and after line 187
RECURSIVE InnerSteps(_, _, _)
InnerSteps(reps, index, j) ==
    IF j > Len(reps) THEN <<>>
    ELSE IF OverlapConflict(reps[index], reps[j])
    THEN LET assigned == [reps EXCEPT ![j] = AssignEndingLine(reps[index], reps[j])]
             clamped == [reps EXCEPT ![j] = Truncate(reps[index], reps[j])]
         IN <<[line |-> 186, replacements |-> assigned],
              [line |-> 187, replacements |-> clamped]>>
                \o InnerSteps(clamped, index, j + 1)
    ELSE InnerSteps(reps, index, j + 1)

RECURSIVE OuterSteps(_, _)
OuterSteps(reps, index) ==
    IF index > Len(reps) THEN <<>>
    ELSE InnerSteps(reps, index, index + 1)
            \o OuterSteps(ResolveInner(reps, <<>>, index, index + 1).reps, index + 1)

\* the list after the sort of line 178 and after each assignment that follows
ResolveStepsOf(reps) ==
    <<[line |-> 178, replacements |-> SortReverse(reps)]>>
        \o OuterSteps(SortReverse(reps), 1)

\* resolve_conflicts: the list it leaves in self.replacements and what it printed
ResolveConflictsOf(reps) == ResolveOuter(SortReverse(reps), <<>>, 1)

(***************************************************************************)
(* FileEdit.get_updated_file_lines                                         *)
(***************************************************************************)
\* a variant of the test that also rejects ranges that only touch
LineOverlapInclusive(earliest_line, replacement) ==
    earliest_line # NoLine /\ replacement.ending_line >= earliest_line

\* a variant of the test that compares the wrong end of the range
LineOverlapByStart(earliest_line, replacement) ==
    earliest_line # NoLine /\ replacement.starting_line > earliest_line

\* the test that raises MentatError("Error: Line overlap in Replacements")
LineOverlap(earliest_line, replacement) ==
    earliest_line # NoLine /\ replacement.ending_line > earliest_line

\* a variant without the padding
NoPad(buf, replacement) == buf

\* file_lines += [""] * (replacement.ending_line - len(file_lines)), when the
\* replacement ends beyond the buffer
Pad(buf, replacement) ==
    IF replacement.ending_line > Len(buf)
    THEN buf \o Repeat("", replacement.ending_line - Len(buf))
    ELSE buf

\* a variant of the splice that takes ending_line as inclusive
SpliceInclusive(buf, replacement) ==
    Slice(buf, 0, replacement.starting_line)
        \o replacement.new_lines
        \o Slice(buf, replacement.ending_line + 1, Len(buf))

\* file_lines[:starting_line] + new_lines + file_lines[ending_line:]
Splice(buf, replacement) ==
    Slice(buf, 0, replacement.starting_line)
        \o replacement.new_lines
        \o Slice(buf, replacement.ending_line, Len(buf))

\* the loop, at the i-th replacement of the sorted list.  buf is the local
\* file_lines; it is the caller's list object until the first rebinding, so the
\* padding  file_lines += [""] * n  of the first iteration extends the caller's
\* list in place
RECURSIVE ApplyFrom(_, _, _, _, _)
ApplyFrom(reps, i, earliest_line, buf, caller) ==
    IF i > Len(reps) THEN [raised |-> FALSE, lines |-> buf, caller |-> caller]
    ELSE LET replacement == reps[i]
             padded == Pad(buf, replacement)
         IN IF LineOverlap(earliest_line, replacement)
            THEN [raised |-> TRUE, lines |-> <<>>, caller |-> caller]
            ELSE ApplyFrom(reps, i + 1, replacement.starting_line,
                           Splice(padded, replacement),
                           IF i = 1 THEN padded ELSE caller)

\* get_updated_file_lines(file_lines) with self.replacements = reps
GetUpdatedFileLinesOf(reps, lines) == ApplyFrom(SortReverse(reps), 1, NoLine, lines, lines)

(***************************************************************************)
(* FileEdit.filter_replacements                                            *)
(***************************************************************************)
\* a loop that keeps every replacement, whatever was answered
KeptReplacementsAll(reps, keep, i) == SubSeq(reps, i, Len(reps))

\* the replacements the loop keeps: those whose "Keep this change?" was answered
\* yes, in the list's order
RECURSIVE KeptReplacements(_, _, _)
KeptReplacements(reps, keep, i) ==
    IF i > Len(reps) THEN <<>>
    ELSE (IF keep[i] THEN <<reps[i]>> ELSE <<>>) \o KeptReplacements(reps, keep, i + 1)

\* a filter_replacements that goes on after "Create this file?" is declined
FilterReplacementsGoingOn(fe, create, delete, rename, keep) ==
    LET p1 == IF fe.is_creation THEN <<"Create this file?">> ELSE <<>>
        p2 == p1 \o (IF fe.is_deletion THEN <<"Delete this file?">> ELSE <<>>)
        p3 == p2 \o (IF fe.rename_file_path # None THEN <<"Rename this file?">> ELSE <<>>)
        p4 == p3 \o [i \in 1..Len(fe.replacements) |-> "Keep this change?"]
        a1 == IF fe.is_creation THEN <<create>> ELSE <<>>
        a2 == a1 \o (IF fe.is_deletion THEN <<delete>> ELSE <<>>)
        a3 == a2 \o (IF fe.rename_file_path # None THEN <<rename>> ELSE <<>>)
        a4 == a3 \o [i \in 1..Len(fe.replacements) |-> keep[i]]
        after == [fe EXCEPT !.rename_file_path =
                               IF fe.rename_file_path # None /\ ~rename THEN None
                               ELSE fe.rename_file_path,
                            !.replacements = KeptReplacements(fe.replacements, keep, 1)]
    IN IF fe.is_deletion /\ ~delete
       THEN [file_edit |-> fe, prompts |-> p2, answers |-> a2, ret |-> FALSE]
       ELSE [file_edit |-> after, prompts |-> p4, answers |-> a4,
             ret |-> fe.is_creation /\ create]

\* filter_replacements on FileEdit fe, the user answering create, delete and
\* rename to the prompts of those names and keep[i] to the prompt of the i-th
\* replacement: the FileEdit it leaves, the prompts it presented, the answers
\* they got, what it returned
FilterReplacementsOf(fe, create, delete, rename, keep) ==
    LET p1 == IF fe.is_creation THEN <<"Create this file?">> ELSE <<>>
        p2 == p1 \o (IF fe.is_deletion THEN <<"Delete this file?">> ELSE <<>>)
        p3 == p2 \o (IF fe.rename_file_path # None THEN <<"Rename this file?">> ELSE <<>>)
        p4 == p3 \o [i \in 1..Len(fe.replacements) |-> "Keep this change?"]
        a1 == IF fe.is_creation THEN <<create>> ELSE <<>>
        a2 == a1 \o (IF fe.is_deletion THEN <<delete>> ELSE <<>>)
        a3 == a2 \o (IF fe.rename_file_path # None THEN <<rename>> ELSE <<>>)
        a4 == a3 \o [i \in 1..Len(fe.replacements) |-> keep[i]]
        renamed == IF fe.rename_file_path # None /\ ~rename THEN None
                   ELSE fe.rename_file_path
        after == [fe EXCEPT !.rename_file_path = renamed,
                            !.replacements = KeptReplacements(fe.replacements, keep, 1)]
    IN IF fe.is_creation /\ ~create
       THEN [file_edit |-> fe, prompts |-> p1, answers |-> a1, ret |-> FALSE]
       ELSE IF fe.is_deletion /\ ~delete
       THEN [file_edit |-> fe, prompts |-> p2, answers |-> a2, ret |-> FALSE]
       ELSE [file_edit |-> after, prompts |-> p4, answers |-> a4,
             ret |-> \/ after.is_creation
                     \/ after.is_deletion
                     \/ after.rename_file_path # None
                     \/ Len(after.replacements) > 0]

(***************************************************************************)
(* FileEdit.is_valid                                                       *)
(***************************************************************************)
\* the number of leading components path and start share, counted from i
RECURSIVE CommonPrefix(_, _, _)
CommonPrefix(path, start, i) ==
    IF i < Len(path) /\ i < Len(start) /\ path[i + 1] = start[i + 1]
    THEN CommonPrefix(path, start, i + 1)
    ELSE i

\* os.path.relpath(path, start) of two absolute paths: one ".." for each
\* component of start below what they share, then the rest of path
RelPath(path, start) ==
    LET i == CommonPrefix(path, start, 0)
    IN Repeat("..", Len(start) - i) \o SubSeq(path, i + 1, Len(path))

\* a variant of is_valid that lost the test of the tracked files
IsValidWithoutContext(fe, root, disk, ctx) ==
    LET cleared == fe.rename_file_path # None /\ fe.rename_file_path \in disk
        ok == [ret |-> TRUE,
               file_edit |-> IF cleared THEN [fe EXCEPT !.rename_file_path = None]
                             ELSE fe,
               printed |-> IF cleared THEN <<"canceling rename.">> ELSE <<>>]
    IN IF fe.is_creation /\ fe.file_path \in disk
       THEN [ret |-> FALSE, file_edit |-> fe, printed |-> <<"canceling creation.">>]
       ELSE IF ~fe.is_creation /\ fe.file_path \notin disk
       THEN [ret |-> FALSE, file_edit |-> fe,
             printed |-> <<"does not exist, canceling all edits to file.">>]
       ELSE ok

\* is_valid on FileEdit fe, with config.git_root = root, the paths of disk
\* existing and ctx the keys of code_file_manager.file_lines: what it returns,
\* the FileEdit it leaves, what it prints
IsValid(fe, root, disk, ctx) ==
    LET rel_path == RelPath(fe.file_path, root)
        cleared == fe.rename_file_path # None /\ fe.rename_file_path \in disk
        ok == [ret |-> TRUE,
               file_edit |-> IF cleared THEN [fe EXCEPT !.rename_file_path = None]
                             ELSE fe,
               printed |-> IF cleared THEN <<"canceling rename.">> ELSE <<>>]
    IN IF fe.is_creation
       THEN IF fe.file_path \in disk
            THEN [ret |-> FALSE, file_edit |-> fe,
                  printed |-> <<"already exists, canceling creation.">>]
            ELSE ok
       ELSE IF fe.file_path \notin disk
            THEN [ret |-> FALSE, file_edit |-> fe,
                  printed |-> <<"does not exist, canceling all edits to file.">>]
            ELSE IF rel_path \notin ctx
            THEN [ret |-> FALSE, file_edit |-> fe,
                  printed |-> <<"not in context, canceling all edits to file.">>]
            ELSE ok

(***************************************************************************)
(* The FileEdit objects the model starts from.                             *)
(***************************************************************************)
\* the ranges a replacement may name: 0 <= starting_line <= ending_line
Ranges == {r \in (0..MaxLine) \X (0..MaxLine) : r[1] <= r[2]}

\* the new_lines of the replacement of identity id, when it has any: MaxNew lines
\* of its own
NewLines(id) == SubSeq(NewText[id], 1, MaxNew)

\* the replacement lists of n entries, in every order of their ranges; each
\* entry removes its range (no new lines) or replaces it by NewLines
ReplacementListsOf(n) ==
    IF n = 0 THEN {<<>>}
    ELSE {[i \in 1..n |-> Replacement(i, c[i][1][1], c[i][1][2],
                                      IF c[i][2] THEN NewLines(i) ELSE <<>>)] :
            c \in [1..n -> Ranges \X BOOLEAN]}

ReplacementLists == UNION {ReplacementListsOf(n) : n \in 0..MaxReps}

\* config.git_root, and the path of the edited file
GitRoot == <<"repo">>
FilePath == GitRoot \o <<"a.py">>

\* FileEdit(file_path, replacements, is_creation, is_deletion, rename_file_path)
FileEdit(path, reps, creation, deletion, rename) ==
    [file_path |-> path, replacements |-> reps, is_creation |-> creation,
     is_deletion |-> deletion, rename_file_path |-> rename]

NoResult == [raised |-> FALSE, lines |-> <<>>]

Before(fe, lines) ==
    [replacements |-> fe.replacements, file_lines |-> lines, file_edit |-> fe]

\* one of the FileEdits of edits as the parser has constructed it, and the lines
\* of its file (none when the edit creates it); no method has been called on it
EditStartWith(edits) ==
    /\ file_edit \in edits
    /\ file_lines \in {SubSeq(FileText, 1, n) :
                         n \in 0..(IF file_edit.is_creation THEN 0 ELSE MaxFile)}
    /\ constructed = file_edit.replacements
    /\ last_op = "none"
    /\ before = Before(file_edit, file_lines)
    /\ resolved = FALSE
    /\ reviewed = FALSE
    /\ notices = <<>>
    /\ resolve_steps = <<>>
    /\ prompts = <<>>
    /\ answers = <<>>
    /\ kept = FALSE
    /\ result = NoResult

\* the same for an update of the file, with one of the replacement lists of lists
EditStart(lists) ==
    EditStartWith({FileEdit(FilePath, reps, FALSE, FALSE, None) : reps \in lists})

\* the Session has no task and its event loop nothing to run
NoTask == 0

NoLifecycle ==
    /\ main_task = NoTask
    /\ stop_task = NoTask
    /\ main_st = [id \in 1..MaxCalls |-> "none"]
    /\ main_cancel = [id \in 1..MaxCalls |-> FALSE]
    /\ stop_st = [id \in 1..MaxCalls |-> "none"]
    /\ n_main = 0
    /\ n_stop = 0
    /\ ready = <<>>
    /\ calls = 0
    /\ ran = <<"none">>
    /\ stop_log = [id \in 1..MaxCalls |-> <<>>]
    /\ errors = {}

\* a MentatEngine as __init__ leaves it (engine.py:43-50), run() not called
NoEngine ==
    /\ should_exit = FALSE
    /\ force_exit = FALSE
    /\ tasks = {}
    /\ heartbeat_st = "none"
    /\ heartbeat_cancel = FALSE
    /\ run_pc = "none"
    /\ counter = 0
    /\ signals = 0
    /\ wait_ended = "none"

\* add_string has not been called
NoAdd == [called |-> FALSE, string |-> <<>>, end |-> <<>>, shutdown |-> FALSE]

\* a StreamingPrinter as __init__ leaves it (streaming_printer.py:10-13), its
\* print_lines not running
NoPrinter ==
    /\ strings_to_print = <<>>
    /\ chars_remaining = 0
    /\ shutdown = FALSE
    /\ drain_pc = "none"
    /\ in_hand = <<>>
    /\ sent = <<>>
    /\ enqueued = <<>>
    /\ at_wrap = <<>>
    /\ last_sleep = <<0, 1>>
    /\ last_add = NoAdd

\* Session._main is not in its loop; the file of the FileEdit exists and is tracked
NoMainLoop ==
    /\ on_disk = {FilePath}
    /\ tracked = {RelPath(FilePath, GitRoot)}
    /\ response = <<>>
    /\ file_edits = <<>>
    /\ main_pc = "none"
    /\ need_user_request = TRUE
    /\ is_valid_calls = <<>>
    /\ printed = <<>>
    /\ feedback_edits = <<>>
    /\ main_exception = "none"
    /\ user_inputs = <<>>
    /\ applied = <<>>
    /\ turns = 0

\* nothing but the FileEdit is in use
NoSession == NoMainLoop /\ NoLifecycle /\ NoPrinter /\ NoEngine

Init == EditStart(ReplacementLists) /\ NoSession

(***************************************************************************)
(* The calls on the FileEdit, in the order its lifecycle allows: conflict   *)
(* resolution at any time before the edit is applied, one review, and the  *)
(* applier, which consumes the object.                                     *)
(***************************************************************************)
Live == last_op # "get_updated_file_lines"

ResolveConflicts ==
    /\ Live
    /\ LET r == ResolveConflictsOf(file_edit.replacements)
       IN /\ file_edit' = [file_edit EXCEPT !.replacements = r.reps]
          /\ notices' = r.out
    /\ resolve_steps' = ResolveStepsOf(file_edit.replacements)
    /\ last_op' = "resolve_conflicts"
    /\ before' = Before(file_edit, file_lines)
    /\ resolved' = TRUE
    /\ UNCHANGED <<file_lines, constructed, reviewed, prompts, answers, kept, result>>
    /\ UNCHANGED <<validVars, loopVars>>

\* ask_yes_no(default_yes=True): what the user may answer to a prompt that is
\* presented; a prompt that is not presented has no answer (written TRUE)
Answers(asked) == IF asked THEN BOOLEAN ELSE {TRUE}

FilterReplacements ==
    /\ Live
    /\ ~reviewed
    /\ \E create \in Answers(file_edit.is_creation),
          delete \in Answers(file_edit.is_deletion),
          rename \in Answers(file_edit.rename_file_path # None),
          keep \in [1..Len(file_edit.replacements) -> BOOLEAN] :
            LET r == FilterReplacementsOf(file_edit, create, delete, rename, keep)
            IN /\ file_edit' = r.file_edit
               /\ prompts' = r.prompts
               /\ answers' = r.answers
               /\ kept' = r.ret
    /\ last_op' = "filter_replacements"
    /\ before' = Before(file_edit, file_lines)
    /\ reviewed' = TRUE
    /\ UNCHANGED <<file_lines, constructed, resolved, notices, resolve_steps, result>>
    /\ UNCHANGED <<validVars, loopVars>>

GetUpdatedFileLines ==
    /\ Live
    /\ LET r == GetUpdatedFileLinesOf(file_edit.replacements, file_lines)
       IN /\ result' = [raised |-> r.raised, lines |-> r.lines]
          /\ file_lines' = r.caller
    /\ file_edit' = [file_edit EXCEPT !.replacements = SortReverse(file_edit.replacements)]
    /\ last_op' = "get_updated_file_lines"
    /\ before' = Before(file_edit, file_lines)
    /\ UNCHANGED <<constructed, resolved, reviewed, notices, resolve_steps, prompts,
                   answers, kept>>
    /\ UNCHANGED <<validVars, loopVars>>

Next ==
    \/ ResolveConflicts
    \/ FilterReplacements
    \/ GetUpdatedFileLines

Spec == Init /\ [][Next]_vars

(***************************************************************************)
(* The review of FileEdits of every kind: creations, deletions, renames    *)
(* and updates.                                                            *)
(***************************************************************************)
\* the path a FileEdit may rename its file to
RenamePath == GitRoot \o <<"b.py">>

\* a creation or a deletion or neither (the parser sets at most one of the
\* flags), with or without a rename, with every replacement list
ReviewEdits ==
    {FileEdit(FilePath, reps, kind = "create", kind = "delete", rename) :
        reps \in ReplacementLists, kind \in {"create", "delete", "update"},
        rename \in {None, RenamePath}}

InitReview == EditStartWith(ReviewEdits) /\ NoSession

SpecReview == InitReview /\ [][Next]_vars

\* filter_replacements alone, on every edit of the review, the file at its
\* longest: the method reads neither the file's lines nor anything the other
\* methods leave
InitFilter ==
    /\ InitReview
    /\ Len(file_lines) = IF file_edit.is_creation THEN 0 ELSE MaxFile

NextFilter == FilterReplacements

SpecFilter == InitFilter /\ [][NextFilter]_vars

(***************************************************************************)
(* Session._main from the return of conv.get_model_response to the call of *)
(* get_user_feedback_on_edits (session.py:87-98).                          *)
(***************************************************************************)
\* the files the edits of a response name
Paths == {GitRoot \o <<"a.py">>, GitRoot \o <<"b.py">>}

\* the FileEdits of a response: an update with one replacement or a deletion, of
\* either file, a creation or not, renamed to either path or not at all
ResponseEdits ==
    {FileEdit(path, body[2], creation, body[1], rename) :
        path \in Paths, creation \in BOOLEAN, rename \in {None} \union Paths,
        body \in {<<FALSE, <<Replacement(1, 0, 1, NewLines(1))>>>>, <<TRUE, <<>>>>}}

Responses == {<<>>} \union UNION {[1..n -> ResponseEdits] : n \in 1..MaxEdits}

\* no FileEdit is under a method call of its own
NoEdit == EditStart({<<>>}) /\ file_lines = <<>>

\* conv.get_model_response has returned, in the first or a later turn of the loop
InitValid ==
    /\ NoEdit
    /\ NoLifecycle /\ NoPrinter /\ NoEngine
    /\ on_disk \in SUBSET Paths
    /\ tracked \in SUBSET {RelPath(path, GitRoot) : path \in Paths}
    /\ response \in Responses
    /\ file_edits = response
    /\ main_pc = "validate"
    /\ need_user_request \in BOOLEAN
    /\ is_valid_calls = <<>>
    /\ printed = <<>>
    /\ feedback_edits = <<>>
    /\ main_exception = "none"
    /\ user_inputs = <<>>
    /\ applied = <<>>
    /\ turns = 0

\* the list comprehension of lines 88-92 from the i-th edit on, every await
\* yielding what is_valid returned: the calls of is_valid, what they printed,
\* and the edits the comprehension keeps
RECURSIVE ValidateFrom(_, _)
ValidateFrom(edits, i) ==
    IF i > Len(edits) THEN [calls |-> <<>>, printed |-> <<>>, kept |-> <<>>]
    ELSE LET v == IsValid(edits[i], GitRoot, on_disk, tracked)
             rest == ValidateFrom(edits, i + 1)
         IN [calls |-> <<[before |-> edits[i], after |-> v.file_edit, ret |-> v.ret]>>
                          \o rest.calls,
             printed |-> v.printed \o rest.printed,
             kept |-> (IF v.ret THEN <<v.file_edit>> ELSE <<>>) \o rest.kept]

\* Lines 88-98.  FileEdit.is_valid (file_edit.py:72) is a plain method, and
\* awaiting the bool it returns raises TypeError: with it as it stands the
\* comprehension ends in the second disjunct as soon as is_valid has returned
\* for the first edit, and the exception escapes _main.  The first disjunct is
\* the comprehension with an awaitable is_valid, each await yielding the bool.
ValidateEdits ==
    /\ main_pc = "validate"
    /\ \/ LET v == ValidateFrom(file_edits, 1)
          IN /\ file_edits' = v.kept
             /\ is_valid_calls' = is_valid_calls \o v.calls
             /\ printed' = printed \o v.printed
             /\ main_pc' = IF v.kept # <<>> THEN "feedback" ELSE "collect_user_input"
             /\ need_user_request' = IF v.kept # <<>> THEN need_user_request ELSE TRUE
             /\ UNCHANGED main_exception
       \/ /\ file_edits # <<>>
          /\ LET v == IsValid(file_edits[1], GitRoot, on_disk, tracked)
             IN /\ file_edits' = [file_edits EXCEPT ![1] = v.file_edit]
                /\ is_valid_calls' = Append(is_valid_calls,
                                            [before |-> file_edits[1],
                                             after |-> v.file_edit, ret |-> v.ret])
                /\ printed' = printed \o v.printed
          /\ main_pc' = "failed"
          /\ main_exception' = "TypeError"
          /\ UNCHANGED need_user_request
    /\ UNCHANGED <<on_disk, tracked, response, feedback_edits, user_inputs, applied,
                   turns>>
    /\ UNCHANGED <<editVars, loopVars>>

\* Lines 93-96: the surviving edits are handed to get_user_feedback_on_edits,
\* which returns whether the loop asks the user for input next
GetUserFeedbackOnEdits ==
    /\ main_pc = "feedback"
    /\ feedback_edits' = file_edits
    /\ \E ret \in BOOLEAN :
          /\ need_user_request' = ret
          /\ main_pc' = IF ret THEN "collect_user_input" ELSE "get_model_response"
    /\ UNCHANGED <<on_disk, tracked, response, file_edits, is_valid_calls, printed,
                   main_exception, user_inputs, applied, turns>>
    /\ UNCHANGED <<editVars, loopVars>>

NextValid ==
    \/ ValidateEdits
    \/ GetUserFeedbackOnEdits

SpecValid == InitValid /\ [][NextValid]_vars

(***************************************************************************)
(* The loop of Session._main (session.py:74-98) from the user's input on:  *)
(* a string that starts with "/" is taken as a command, anything else goes *)
(* to the model.  A string is the sequence of its characters.              *)
(***************************************************************************)
Alphabet == {"/", "h", " ", "'"}

\* what the user may type: every string of up to MaxInput characters, and some
\* command lines
CommandLines ==
    {<<"/", "h", "e", "l", "p">>,
     <<"/", "h", "e", "l", "p", " ", "h">>,
     <<"/", "'", "h", " ", "h", "'">>}

UserStrings == UNION {[1..n -> Alphabet] : n \in 0..MaxInput} \union CommandLines

\* a message of collect_user_input: its data, and whether the data is a str
UserMessages ==
    {[is_str |-> TRUE, data |-> s] : s \in UserStrings}
        \union {[is_str |-> FALSE, data |-> <<>>]}

\* shlex.split(s) from the i-th character on: st is where the lexer is
\* (between tokens, in a word, inside quotes), tok the token under way, toks
\* the tokens read.  Whitespace ends a word; a quote opens or continues a
\* token and keeps whitespace; the end of s inside quotes raises ValueError
\* ("No closing quotation")
RECURSIVE ShlexFrom(_, _, _, _, _)
ShlexFrom(s, i, st, tok, toks) ==
    IF i > Len(s)
    THEN IF st = "quote" THEN [raised |-> "ValueError", tokens |-> <<>>]
         ELSE [raised |-> "none",
               tokens |-> IF st = "word" THEN Append(toks, tok) ELSE toks]
    ELSE LET c == s[i]
         IN CASE st = "space" /\ c = " " -> ShlexFrom(s, i + 1, "space", <<>>, toks)
              [] st = "space" /\ c = "'" -> ShlexFrom(s, i + 1, "quote", <<>>, toks)
              [] st = "space" /\ c \notin {" ", "'"} ->
                    ShlexFrom(s, i + 1, "word", <<c>>, toks)
              [] st = "word" /\ c = " " ->
                    ShlexFrom(s, i + 1, "space", <<>>, Append(toks, tok))
              [] st = "word" /\ c = "'" -> ShlexFrom(s, i + 1, "quote", tok, toks)
              [] st = "word" /\ c \notin {" ", "'"} ->
                    ShlexFrom(s, i + 1, "word", Append(tok, c), toks)
              [] st = "quote" /\ c = "'" -> ShlexFrom(s, i + 1, "word", tok, toks)
              [] st = "quote" /\ c # "'" ->
                    ShlexFrom(s, i + 1, "quote", Append(tok, c), toks)

ShlexSplit(s) == ShlexFrom(s, 1, "space", <<>>, <<>>)

\* Command._registered_commands: the names the subclasses register
RegisteredCommands ==
    {<<"h", "e", "l", "p">>, <<"c", "o", "m", "m", "i", "t">>,
     <<"i", "n", "c", "l", "u", "d", "e">>, <<"e", "x", "c", "l", "u", "d", "e">>,
     <<"u", "n", "d", "o">>, <<"u", "n", "d", "o", "-", "a", "l", "l">>,
     <<"c", "l", "e", "a", "r">>, <<"s", "e", "a", "r", "c", "h">>}

\* self.code_context, as an argument
CodeContext == <<"code_context">>

\* Command.create_command called with the positional arguments args: the
\* classmethod takes command_name and nothing else, and a call with any other
\* number of arguments raises TypeError before its body runs
CreateCommand(args) ==
    IF Len(args) # 1 THEN [raised |-> "TypeError", command |-> None]
    ELSE [raised |-> "none",
          command |-> IF args[1] \in RegisteredCommands THEN args[1]
                      ELSE <<"InvalidCommand", args[1]>>]

\* lines 80-82 on the input data: the exception raised, if any, and the
\* command whose apply is awaited, with its arguments
InterceptCommand(data) ==
    LET arguments == ShlexSplit(Tail(data))
        none == <<>>
    IN IF arguments.raised # "none"
       THEN [raised |-> arguments.raised, applied |-> none]
       ELSE IF arguments.tokens = <<>>
       THEN [raised |-> "IndexError", applied |-> none]
       ELSE LET command == CreateCommand(<<arguments.tokens[1], CodeContext>>)
            IN IF command.raised # "none"
               THEN [raised |-> command.raised, applied |-> none]
               ELSE [raised |-> "none",
                     applied |-> <<[command |-> command.command,
                                    args |-> Tail(arguments.tokens)]>>]

\* the test of line 79
IsCommandInput(message) ==
    message.is_str /\ message.data # <<>> /\ Head(message.data) = "/"

\* Lines 75-87, from the return of collect_user_input to the next await of
\* collect_user_input (after a command: `continue`) or of get_model_response
CollectUserInput ==
    /\ main_pc = "collect_user_input"
    /\ turns < MaxTurns
    /\ turns' = turns + 1
    /\ \E message \in UserMessages :
          /\ user_inputs' = Append(user_inputs, message)
          /\ IF IsCommandInput(message)
             THEN LET r == InterceptCommand(message.data)
                  IN /\ applied' = applied \o r.applied
                     /\ main_exception' = r.raised
                     /\ main_pc' = IF r.raised = "none" THEN "collect_user_input"
                                   ELSE "failed"
             ELSE /\ main_pc' = "get_model_response"
                  /\ UNCHANGED <<applied, main_exception>>
    /\ UNCHANGED <<on_disk, tracked, response, file_edits, need_user_request,
                   is_valid_calls, printed, feedback_edits>>
    /\ UNCHANGED <<editVars, loopVars>>

\* the responses of the model in this part: no edit, or one update or deletion
CommandResponses ==
    {r \in Responses :
        /\ Len(r) <= 1
        /\ \A i \in DOMAIN r : ~r[i].is_creation /\ r[i].rename_file_path = None}

\* Line 87: conv.get_model_response returns, at the user's request or in an
\* iteration that asked the user for nothing
GetModelResponse ==
    /\ main_pc = "get_model_response"
    /\ need_user_request \/ turns < MaxTurns
    /\ turns' = IF need_user_request THEN turns ELSE turns + 1
    /\ \E edits \in CommandResponses :
          /\ response' = edits
          /\ file_edits' = edits
    /\ main_pc' = "validate"
    /\ UNCHANGED <<on_disk, tracked, need_user_request, is_valid_calls, printed,
                   feedback_edits, main_exception, user_inputs, applied>>
    /\ UNCHANGED <<editVars, loopVars>>

\* _main has greeted the user and awaits the first input (lines 63-75)
InitCommand ==
    /\ NoEdit
    /\ NoLifecycle /\ NoPrinter /\ NoEngine
    /\ on_disk = Paths
    /\ tracked = {RelPath(path, GitRoot) : path \in Paths}
    /\ response = <<>>
    /\ file_edits = <<>>
    /\ main_pc = "collect_user_input"
    /\ need_user_request = TRUE
    /\ is_valid_calls = <<>>
    /\ printed = <<>>
    /\ feedback_edits = <<>>
    /\ main_exception = "none"
    /\ user_inputs = <<>>
    /\ applied = <<>>
    /\ turns = 0

NextCommand ==
    \/ CollectUserInput
    \/ GetModelResponse
    \/ ValidateEdits
    \/ GetUserFeedbackOnEdits

SpecCommand == InitCommand /\ [][NextCommand]_vars

(***************************************************************************)
(* The lifecycle of a Session (session.py:100-172) on one asyncio event     *)
(* loop.  The loop runs its ready callbacks first in, first out; a callback *)
(* runs to its end, a task's step to the task's next suspension.  Clients   *)
(* call start() and stop() from callbacks of their own, which become ready  *)
(* at any time.                                                            *)
(***************************************************************************)
\* Session.is_stopped, of the two handles
IsStopped(mt, st) == mt = NoTask /\ st = NoTask

\* a start() that never refuses
StartNeverRefuses(mt) == FALSE

\* `if self._main_task:` of start(), line 112
StartRefuses(mt) == mt # NoTask

\* a stop() that refuses only while a stop task is outstanding
StopRefusesOnlyOutstanding(mt, st) == st # NoTask

\* the two tests of stop(), lines 144-149
StopRefuses(mt, st) == st # NoTask \/ IsStopped(mt, st)

\* where a task that has not finished may be: created and its first step
\* ready, suspended at an await, or woken with its next step ready
Unfinished(st) == st \in {"unstarted", "waiting", "ready", "sleeping", "polled",
                          "stopping_stream", "stream_stopped"}

Callback(kind, id) == <<kind, id>>

\* the head of the ready queue is the callback kind of task id
IsNext(kind, id) == ready # <<>> /\ Head(ready) = Callback(kind, id)

\* a client callback becomes ready: it will call start() or stop()
ClientArrives ==
    /\ calls < MaxCalls
    /\ calls' = calls + 1
    /\ \E op \in {"client_start", "client_stop"} :
          ready' = Append(ready, Callback(op, NoTask))
    /\ UNCHANGED <<main_task, stop_task, main_st, main_cancel, stop_st, n_main,
                   n_stop, ran, stop_log, errors>>
    /\ UNCHANGED <<editVars, validVars, printVars, engVars>>

\* start(), lines 112-114 and 134-135
ClientStart ==
    /\ IsNext("client_start", NoTask)
    /\ IF StartRefuses(main_task)
       THEN /\ ran' = <<"client_start", "refused">>
            /\ ready' = Tail(ready)
            /\ UNCHANGED <<main_task, main_st, n_main>>
       ELSE /\ ran' = <<"client_start", "accepted">>
            /\ n_main' = n_main + 1
            /\ main_st' = [main_st EXCEPT ![n_main + 1] = "unstarted"]
            /\ main_task' = n_main + 1
            /\ ready' = Append(Tail(ready), Callback("main_step", n_main + 1))
    /\ UNCHANGED <<stop_task, main_cancel, stop_st, n_stop, calls, stop_log, errors>>
    /\ UNCHANGED <<editVars, validVars, printVars, engVars>>

\* stop(), lines 144-149 and 171-172
ClientStop ==
    /\ IsNext("client_stop", NoTask)
    /\ IF StopRefuses(main_task, stop_task)
       THEN /\ ran' = <<"client_stop", "refused">>
            /\ ready' = Tail(ready)
            /\ UNCHANGED <<stop_task, stop_st, n_stop>>
       ELSE /\ ran' = <<"client_stop", "accepted">>
            /\ n_stop' = n_stop + 1
            /\ stop_st' = [stop_st EXCEPT ![n_stop + 1] = "unstarted"]
            /\ stop_task' = n_stop + 1
            /\ ready' = Append(Tail(ready), Callback("stop_step", n_stop + 1))
    /\ UNCHANGED <<main_task, main_st, main_cancel, n_main, calls, stop_log, errors>>
    /\ UNCHANGED <<editVars, validVars, printVars, engVars>>

\* what the main task awaits (the stream, the user, the model) completes
MainWakes ==
    /\ \E id \in 1..n_main :
          /\ main_st[id] = "waiting"
          /\ main_st' = [main_st EXCEPT ![id] = "ready"]
          /\ ready' = Append(ready, Callback("main_step", id))
    /\ UNCHANGED <<main_task, stop_task, main_cancel, stop_st, n_main, n_stop, calls,
                   ran, stop_log, errors>>
    /\ UNCHANGED <<editVars, validVars, printVars, engVars>>

\* a step of run_main, lines 116-121.  With CancelledError thrown into it: a
\* coroutine that never ran is never entered, and its task ends cancelled; one
\* suspended inside the try catches it and returns.  Otherwise the step runs
\* up to the next await of stream.start() or _main(), or an exception other
\* than CancelledError escapes (_main has no other way to end).
MainStep ==
    /\ \E id \in 1..n_main :
          /\ IsNext("main_step", id)
          /\ ran' = <<"main_step", id>>
          /\ main_cancel' = [main_cancel EXCEPT ![id] = FALSE]
          /\ IF main_cancel[id]
             THEN /\ main_st' = [main_st EXCEPT ![id] =
                                    IF main_st[id] = "unstarted" THEN "cancelled"
                                    ELSE "returned"]
                  /\ ready' = Append(Tail(ready), Callback("main_cb", id))
             ELSE \/ /\ main_st' = [main_st EXCEPT ![id] = "waiting"]
                     /\ ready' = Tail(ready)
                  \/ /\ main_st' = [main_st EXCEPT ![id] = "raised"]
                     /\ ready' = Append(Tail(ready), Callback("main_cb", id))
    /\ UNCHANGED <<main_task, stop_task, stop_st, n_main, n_stop, calls, stop_log,
                   errors>>
    /\ UNCHANGED <<editVars, validVars, printVars, engVars>>

\* a cleanup_main that leaves the handle of a task that raised
CleanupMainKeepingFailed(st, mt, errs) ==
    IF st = "cancelled"
    THEN [main_task |-> mt, errors |-> errs \union {"CancelledError in cleanup_main"}]
    ELSE IF st = "raised"
    THEN [main_task |-> mt, errors |-> errs \union {"Main task threw an exception"}]
    ELSE [main_task |-> NoTask, errors |-> errs]

\* cleanup_main, lines 123-132, on a task that ended as st says, with
\* _main_task = mt: task.exception() raises CancelledError for a cancelled task
\* (the loop reports the exception of the callback, and line 131 is not
\* reached), returns the exception of one that raised, None of one that returned
CleanupMainOf(st, mt, errs) ==
    IF st = "cancelled"
    THEN [main_task |-> mt, errors |-> errs \union {"CancelledError in cleanup_main"}]
    ELSE IF st = "raised"
    THEN [main_task |-> NoTask,
          errors |-> errs \union {"Main task threw an exception"}]
    ELSE [main_task |-> NoTask, errors |-> errs]

\* the done callback of a main task
CleanupMain ==
    /\ \E id \in 1..n_main :
          /\ IsNext("main_cb", id)
          /\ ran' = <<"main_cb", id>>
          /\ LET r == CleanupMainOf(main_st[id], main_task, errors)
             IN main_task' = r.main_task /\ errors' = r.errors
    /\ ready' = Tail(ready)
    /\ UNCHANGED <<stop_task, main_st, main_cancel, stop_st, n_main, n_stop, calls,
                   stop_log>>
    /\ UNCHANGED <<editVars, validVars, printVars, engVars>>

\* Task.cancel() on main task id: nothing for a task that is done; a task
\* suspended at an await has what it waits for cancelled and is woken with
\* CancelledError; one whose step is ready gets CancelledError at that step
CancelOf(id) ==
    IF ~Unfinished(main_st[id])
    THEN [main_st |-> main_st, main_cancel |-> main_cancel, woken |-> <<>>]
    ELSE IF main_st[id] = "waiting"
    THEN [main_st |-> [main_st EXCEPT ![id] = "ready"],
          main_cancel |-> [main_cancel EXCEPT ![id] = TRUE],
          woken |-> <<Callback("main_step", id)>>]
    ELSE [main_st |-> main_st, main_cancel |-> [main_cancel EXCEPT ![id] = TRUE],
          woken |-> <<>>]

\* a step of run_stop, lines 151-165: from its start to the first sleep or
\* the early return; from a sleep that ended to the next sleep or to
\* stream.stop(); from the return of stream.stop() to the end
StopStep ==
    /\ \E id \in 1..n_stop :
          /\ IsNext("stop_step", id)
          /\ ran' = <<"stop_step", id>>
          /\ CASE stop_st[id] = "unstarted" /\ main_task = NoTask ->
                    /\ stop_st' = [stop_st EXCEPT ![id] = "returned"]
                    /\ stop_log' = [stop_log EXCEPT ![id] = Append(@, "returned")]
                    /\ ready' = Append(Tail(ready), Callback("stop_cb", id))
                    /\ UNCHANGED <<main_st, main_cancel>>
               [] stop_st[id] = "unstarted" /\ main_task # NoTask ->
                    LET c == CancelOf(main_task)
                    IN /\ main_st' = c.main_st
                       /\ main_cancel' = c.main_cancel
                       /\ stop_st' = [stop_st EXCEPT ![id] = "sleeping"]
                       /\ stop_log' = [stop_log EXCEPT ![id] = Append(@, "cancel")]
                       /\ ready' = Tail(ready) \o c.woken
               [] stop_st[id] = "polled" /\ main_task # NoTask ->
                    /\ stop_st' = [stop_st EXCEPT ![id] = "sleeping"]
                    /\ ready' = Tail(ready)
                    /\ UNCHANGED <<main_st, main_cancel, stop_log>>
               [] stop_st[id] = "polled" /\ main_task = NoTask ->
                    /\ stop_st' = [stop_st EXCEPT ![id] = "stopping_stream"]
                    /\ stop_log' = [stop_log EXCEPT ![id] = Append(@, "cleared")]
                    /\ ready' = Tail(ready)
                    /\ UNCHANGED <<main_st, main_cancel>>
               [] stop_st[id] = "stream_stopped" ->
                    /\ stop_st' = [stop_st EXCEPT ![id] = "returned"]
                    /\ stop_log' = [stop_log EXCEPT ![id] = Append(@, "returned")]
                    /\ ready' = Append(Tail(ready), Callback("stop_cb", id))
                    /\ UNCHANGED <<main_st, main_cancel>>
    /\ UNCHANGED <<main_task, stop_task, n_main, n_stop, calls, errors>>
    /\ UNCHANGED <<editVars, validVars, printVars, engVars>>

\* asyncio.sleep(0.1) of line 162 ends
TimerFires ==
    /\ \E id \in 1..n_stop :
          /\ stop_st[id] = "sleeping"
          /\ stop_st' = [stop_st EXCEPT ![id] = "polled"]
          /\ ready' = Append(ready, Callback("stop_step", id))
    /\ UNCHANGED <<main_task, stop_task, main_st, main_cancel, n_main, n_stop, calls,
                   ran, stop_log, errors>>
    /\ UNCHANGED <<editVars, validVars, printVars, engVars>>

\* stream.stop() of line 163 returns
StreamStopReturns ==
    /\ \E id \in 1..n_stop :
          /\ stop_st[id] = "stopping_stream"
          /\ stop_st' = [stop_st EXCEPT ![id] = "stream_stopped"]
          /\ stop_log' = [stop_log EXCEPT ![id] = Append(@, "stream_stopped")]
          /\ ready' = Append(ready, Callback("stop_step", id))
    /\ UNCHANGED <<main_task, stop_task, main_st, main_cancel, n_main, n_stop, calls,
                   ran, errors>>
    /\ UNCHANGED <<editVars, validVars, printVars, engVars>>

\* cleanup_stop, lines 167-169: the done callback of a stop task
CleanupStop ==
    /\ \E id \in 1..n_stop :
          /\ IsNext("stop_cb", id)
          /\ ran' = <<"stop_cb", id>>
          /\ stop_log' = [stop_log EXCEPT ![id] = Append(@, "handle_cleared")]
    /\ stop_task' = NoTask
    /\ ready' = Tail(ready)
    /\ UNCHANGED <<main_task, main_st, main_cancel, stop_st, n_main, n_stop, calls,
                   errors>>
    /\ UNCHANGED <<editVars, validVars, printVars, engVars>>

\* the event loop runs the callback at the head of its queue
RunReady ==
    \/ ClientStart
    \/ ClientStop
    \/ MainStep
    \/ CleanupMain
    \/ StopStep
    \/ CleanupStop

\* a Session as __init__ leaves it: no task, nothing ready
InitSession == NoEdit /\ NoSession

NextSession ==
    \/ ClientArrives
    \/ MainWakes
    \/ TimerFires
    \/ StreamStopReturns
    \/ RunReady

SpecSession == InitSession /\ [][NextSession]_vars

\* the event loop runs whatever is ready, timers fire, and stream.stop()
\* returns; what the main task waits for (the user, the model) need not come
SpecSessionFair ==
    /\ SpecSession
    /\ WF_vars(RunReady)
    /\ WF_vars(TimerFires)
    /\ WF_vars(StreamStopReturns)

(***************************************************************************)
(* StreamingPrinter (streaming_printer.py).  Times are rationals            *)
(* <<numerator, denominator>> in seconds, denominators positive; a string   *)
(* is the sequence of its characters, and a unit of the deque the sequence  *)
(* of the pieces it is made of (a character, with the colour codes that     *)
(* add_string attaches to the first and the last one).                     *)
(***************************************************************************)
RatLess(x, y) == x[1] * y[2] < y[1] * x[2]

RatEq(x, y) == x[1] * y[2] = y[1] * x[2]

\* min(x, y) and max(x, y) of Python: the first argument unless the second
\* is smaller, or greater
RatMin(x, y) == IF RatLess(y, x) THEN y ELSE x

RatMax(x, y) == IF RatLess(x, y) THEN y ELSE x

\* a sleep_time without the lower clamp
SleepTimeUnclamped(chars, sd) ==
    RatMin(IF sd THEN <<2, 1000>> ELSE <<6, 1000>>, <<1, chars + 1>>)

\* sleep_time, lines 33-38, with chars_remaining = chars and shutdown = sd
SleepTimeOf(chars, sd) ==
    LET max_finish_time == <<1, 1>>
        required_sleep_time == <<max_finish_time[1], max_finish_time[2] * (chars + 1)>>
        max_sleep == IF sd THEN <<2, 1000>> ELSE <<6, 1000>>
        min_sleep == <<2, 1000>>
    IN RatMax(RatMin(max_sleep, required_sleep_time), min_sleep)

\* colored(string, color) of termcolor, as what it puts before and after
ColorCodes(color) ==
    IF color = "none" THEN [prefix |-> <<>>, suffix |-> <<>>]
    ELSE [prefix |-> <<"<" \o color \o ">">>, suffix |-> <<"<reset>">>]

\* an add_string that takes no notice of shutdown
AddStringAlways(string, end, color, sd) ==
    IF Len(string) = 0 THEN <<>>
    ELSE LET s == string \o end
             c == ColorCodes(color)
         IN [i \in 1..Len(s) |->
                (IF i = 1 THEN c.prefix ELSE <<>>) \o <<s[i]>>
                \o (IF i = Len(s) THEN c.suffix ELSE <<>>)]

\* add_string, lines 15-31: the units it appends to the deque, none when
\* shutdown is set or the string is empty
AddStringOf(string, end, color, sd) ==
    IF sd \/ Len(string) = 0 THEN <<>>
    ELSE LET s == string \o end
             c == ColorCodes(color)
         IN [i \in 1..Len(s) |->
                (IF i = 1 THEN c.prefix ELSE <<>>) \o <<s[i]>>
                \o (IF i = Len(s) THEN c.suffix ELSE <<>>)]

AddString ==
    /\ \E string \in {<<>>, <<"a">>, <<"a", "b">>}, end \in {<<>>, <<"\n">>},
          color \in {"none", "red"} :
          LET characters == AddStringOf(string, end, color, shutdown)
          IN /\ Len(enqueued) + Len(characters) <= MaxUnits
             /\ strings_to_print' = strings_to_print \o characters
             /\ chars_remaining' = chars_remaining + Len(characters)
             /\ enqueued' = enqueued \o characters
             /\ last_add' = [called |-> TRUE, string |-> string, end |-> end,
                             shutdown |-> shutdown]
    /\ UNCHANGED <<shutdown, drain_pc, in_hand, sent, at_wrap, last_sleep>>
    /\ UNCHANGED <<editVars, validVars, sessVars, engVars>>

\* wrap_it_up, lines 52-53
WrapItUp ==
    /\ shutdown' = TRUE
    /\ at_wrap' = IF shutdown THEN at_wrap ELSE strings_to_print
    /\ UNCHANGED <<strings_to_print, chars_remaining, drain_pc, in_hand, sent,
                   enqueued, last_sleep, last_add>>
    /\ UNCHANGED <<editVars, validVars, sessVars, engVars>>

\* the task of print_lines runs its first step
PrintLinesStarts ==
    /\ drain_pc = "none"
    /\ drain_pc' = "top"
    /\ UNCHANGED <<strings_to_print, chars_remaining, shutdown, in_hand, sent,
                   enqueued, at_wrap, last_sleep, last_add>>
    /\ UNCHANGED <<editVars, validVars, sessVars, engVars>>

\* a pop from the right end of the deque
PopRight(dq) == [next_string |-> dq[Len(dq)], rest |-> SubSeq(dq, 1, Len(dq) - 1)]

\* strings_to_print.popleft() of line 47, on a deque that is not empty
PopLeft(dq) == [next_string |-> Head(dq), rest |-> Tail(dq)]

\* print_lines from the top of its loop to its next await or its end, lines
\* 43-50: the break on shutdown; or the popleft and the call of stream.send;
\* or, the deque being empty, the call of asyncio.sleep
DrainTop ==
    /\ drain_pc = "top"
    /\ IF shutdown
       THEN /\ drain_pc' = "exited"
            /\ UNCHANGED <<strings_to_print, in_hand, sent, last_sleep>>
       ELSE IF strings_to_print # <<>>
       THEN /\ LET p == PopLeft(strings_to_print)
               IN /\ in_hand' = <<p.next_string>>
                  /\ strings_to_print' = p.rest
                  /\ sent' = Append(sent, p.next_string)
            /\ drain_pc' = "sending"
            /\ UNCHANGED last_sleep
       ELSE /\ last_sleep' = SleepTimeOf(chars_remaining, shutdown)
            /\ drain_pc' = "sleeping"
            /\ UNCHANGED <<strings_to_print, in_hand, sent>>
    /\ UNCHANGED <<chars_remaining, shutdown, enqueued, at_wrap, last_add>>
    /\ UNCHANGED <<editVars, validVars, sessVars, engVars>>

\* stream.send returns: lines 49-50 up to the await of asyncio.sleep
SendReturns ==
    /\ drain_pc = "sending"
    /\ in_hand' = <<>>
    /\ chars_remaining' = chars_remaining - 1
    /\ last_sleep' = SleepTimeOf(chars_remaining', shutdown)
    /\ drain_pc' = "sleeping"
    /\ UNCHANGED <<strings_to_print, shutdown, sent, enqueued, at_wrap, last_add>>
    /\ UNCHANGED <<editVars, validVars, sessVars, engVars>>

\* asyncio.sleep returns, and the loop is at its top again
SleepReturns ==
    /\ drain_pc = "sleeping"
    /\ drain_pc' = "top"
    /\ UNCHANGED <<strings_to_print, chars_remaining, shutdown, in_hand, sent,
                   enqueued, at_wrap, last_sleep, last_add>>
    /\ UNCHANGED <<editVars, validVars, sessVars, engVars>>

\* a StreamingPrinter after __init__
InitPrinter == NoEdit /\ NoSession

NextPrinter ==
    \/ AddString
    \/ WrapItUp
    \/ PrintLinesStarts
    \/ DrainTop
    \/ SendReturns
    \/ SleepReturns

SpecPrinter == InitPrinter /\ [][NextPrinter]_vars

\* the task of print_lines is started and the event loop runs its steps:
\* stream.send and asyncio.sleep return.  Nothing obliges the callers of
\* add_string and wrap_it_up to call them
SpecPrinterFair ==
    /\ SpecPrinter
    /\ WF_vars(PrintLinesStarts)
    /\ WF_vars(DrainTop)
    /\ WF_vars(SendReturns)
    /\ WF_vars(SleepReturns)

\* Task.cancel() on the task of print_lines, and the step that delivers it:
\* CancelledError is raised at the await the task is suspended at (stream.send
\* or asyncio.sleep), or the task that never ran is not entered.  print_lines
\* catches nothing, so the task ends there, and line 49 is not reached for a
\* unit whose send was under way
CancelPrintLines ==
    /\ drain_pc \in {"none", "top", "sending", "sleeping"}
    /\ drain_pc' = "cancelled"
    /\ in_hand' = <<>>
    /\ UNCHANGED <<strings_to_print, chars_remaining, shutdown, sent, enqueued,
                   at_wrap, last_sleep, last_add>>
    /\ UNCHANGED <<editVars, validVars, sessVars, engVars>>

NextPrinterCancel ==
    \/ AddString
    \/ WrapItUp
    \/ PrintLinesStarts
    \/ DrainTop
    \/ SendReturns
    \/ SleepReturns
    \/ CancelPrintLines

\* the printer with a task of print_lines that may be cancelled
SpecPrinterCancel == InitPrinter /\ [][NextPrinterCancel]_vars

(***************************************************************************)
(* MentatEngine (engine.py:40-146): _run installs _handle_exit for SIGINT   *)
(* and SIGTERM, starts the heartbeat task, loops until _should_exit and     *)
(* shuts down.  The event loop runs the steps of the two tasks and the      *)
(* signal handler one at a time; a step that is ready when _run goes to     *)
(* sleep runs before that sleep ends.                                       *)
(***************************************************************************)
\* a handler that sets both flags at the first signal
HandleExitAtOnce(should, force) == [should_exit |-> TRUE, force_exit |-> TRUE]

\* _handle_exit, lines 98-102, on the two flags
HandleExitOf(should, force) ==
    IF should THEN [should_exit |-> should, force_exit |-> TRUE]
    ELSE [should_exit |-> TRUE, force_exit |-> force]

\* task.cancelled() of every tracked task, line 130
AllCancelled(ts, st) == \A task \in ts : st = "cancelled"

\* a wait that goes on until every task is cancelled, whatever _force_exit is
ShutdownWaitIgnoringForce(force, ts, st) ==
    IF AllCancelled(ts, st) THEN "all_cancelled" ELSE "none"

\* the tests of lines 129-131: how the wait ends now, "none" if it goes on
ShutdownWait(force, ts, st) ==
    IF force THEN "forced"
    ELSE IF AllCancelled(ts, st) THEN "all_cancelled"
    ELSE "none"

\* _run from its call to the first await that suspends it, lines 140-142 with
\* 104-121: the handlers are installed, the heartbeat task is created and
\* tracked, and _main_loop, _should_exit being False, sleeps
EngineRun ==
    /\ run_pc = "none"
    /\ heartbeat_st' = "unstarted"
    /\ tasks' = tasks \union {"heartbeat"}
    /\ counter' = (counter + 1) % CounterModulus
    /\ run_pc' = "main_sleep"
    /\ UNCHANGED <<should_exit, force_exit, heartbeat_cancel, signals, wait_ended>>
    /\ UNCHANGED <<editVars, validVars, sessVars, printVars>>

\* SIGINT or SIGTERM arrives and the loop calls _handle_exit
HandleExit ==
    /\ run_pc \notin {"none", "stopped"}
    /\ signals < MaxSignals
    /\ signals' = signals + 1
    /\ LET r == HandleExitOf(should_exit, force_exit)
       IN should_exit' = r.should_exit /\ force_exit' = r.force_exit
    /\ UNCHANGED <<tasks, heartbeat_st, heartbeat_cancel, run_pc, counter, wait_ended>>
    /\ UNCHANGED <<editVars, validVars, sessVars, printVars>>

\* a step of heartbeat(), lines 93-96: to its sleep; or, CancelledError being
\* thrown into it (or the task being cancelled before it ever ran), to its
\* end as a cancelled task, since it catches nothing
HeartbeatStep ==
    /\ heartbeat_st \in {"unstarted", "ready"}
    /\ heartbeat_st' = IF heartbeat_cancel THEN "cancelled" ELSE "sleeping"
    /\ heartbeat_cancel' = FALSE
    /\ UNCHANGED <<should_exit, force_exit, tasks, run_pc, counter, signals,
                   wait_ended>>
    /\ UNCHANGED <<editVars, validVars, sessVars, printVars>>

\* asyncio.sleep(3) of the heartbeat ends
HeartbeatWakes ==
    /\ heartbeat_st = "sleeping"
    /\ heartbeat_st' = "ready"
    /\ UNCHANGED <<should_exit, force_exit, tasks, heartbeat_cancel, run_pc, counter,
                   signals, wait_ended>>
    /\ UNCHANGED <<editVars, validVars, sessVars, printVars>>

\* asyncio.sleep(0.1) of _main_loop or of _shutdown ends: the loop has run
\* what was ready before the timer is due
EngineSleepEnds ==
    /\ run_pc \in {"main_sleep", "shutdown_sleep"}
    /\ heartbeat_st \notin {"unstarted", "ready"}
    /\ run_pc' = IF run_pc = "main_sleep" THEN "main_ready" ELSE "shutdown_ready"
    /\ UNCHANGED <<should_exit, force_exit, tasks, heartbeat_st, heartbeat_cancel,
                   counter, signals, wait_ended>>
    /\ UNCHANGED <<editVars, validVars, sessVars, printVars>>

\* task.cancel() of line 127 on the heartbeat: nothing for a task that is
\* done; a task at its sleep is woken to get CancelledError; one that is
\* ready to run gets it at its step
CancelHeartbeat(st, cancel) ==
    IF st \in {"none", "cancelled"} THEN [st |-> st, cancel |-> cancel]
    ELSE IF st = "sleeping" THEN [st |-> "ready", cancel |-> TRUE]
    ELSE [st |-> st, cancel |-> TRUE]

\* a step of _run in _main_loop, lines 118-121, and when the loop ends the
\* start of _shutdown, lines 124-132: every tracked task is cancelled and the
\* wait ends at once or sleeps
MainLoopStep ==
    /\ run_pc = "main_ready"
    /\ IF ~should_exit
       THEN /\ counter < MaxTicks
            /\ counter' = (counter + 1) % CounterModulus
            /\ run_pc' = "main_sleep"
            /\ UNCHANGED <<heartbeat_st, heartbeat_cancel, wait_ended>>
       ELSE LET c == CancelHeartbeat(heartbeat_st, heartbeat_cancel)
                w == ShutdownWait(force_exit, tasks, c.st)
            IN /\ heartbeat_st' = c.st
               /\ heartbeat_cancel' = c.cancel
               /\ wait_ended' = w
               /\ run_pc' = IF w = "none" THEN "shutdown_sleep" ELSE "stopped"
               /\ UNCHANGED counter
    /\ UNCHANGED <<should_exit, force_exit, tasks, signals>>
    /\ UNCHANGED <<editVars, validVars, sessVars, printVars>>

\* a step of _run in the wait of _shutdown, lines 129-137
ShutdownStep ==
    /\ run_pc = "shutdown_ready"
    /\ LET w == ShutdownWait(force_exit, tasks, heartbeat_st)
       IN /\ wait_ended' = w
          /\ run_pc' = IF w = "none" THEN "shutdown_sleep" ELSE "stopped"
    /\ UNCHANGED <<should_exit, force_exit, tasks, heartbeat_st, heartbeat_cancel,
                   counter, signals>>
    /\ UNCHANGED <<editVars, validVars, sessVars, printVars>>

InitEngine == NoEdit /\ NoSession

NextEngine ==
    \/ EngineRun
    \/ HandleExit
    \/ HeartbeatStep
    \/ HeartbeatWakes
    \/ EngineSleepEnds
    \/ MainLoopStep
    \/ ShutdownStep

SpecEngine == InitEngine /\ [][NextEngine]_vars

\* the event loop runs every step that is ready and its timers fire; the
\* heartbeat sleeps 3 s between two steps, so the 0.1 s sleep of _run ends at
\* a time when no step of the heartbeat is ready, however often the heartbeat
\* wakes.  Nothing obliges anyone to send a signal
SpecEngineFair ==
    /\ SpecEngine
    /\ WF_vars(EngineRun)
    /\ WF_vars(HeartbeatStep)
    /\ WF_vars(HeartbeatWakes)
    /\ SF_vars(EngineSleepEnds)
    /\ WF_vars(MainLoopStep)
    /\ WF_vars(ShutdownStep)

(***************************************************************************)
(* sleep_time on every backlog: a StreamingPrinter that holds n units, with *)
(* or without wrap_it_up having been called, has its sleep_time called.     *)
(***************************************************************************)
InitSleep ==
    /\ NoEdit /\ NoMainLoop /\ NoLifecycle /\ NoEngine
    /\ chars_remaining \in 0..MaxChars
    /\ strings_to_print = [i \in 1..chars_remaining |-> <<"a">>]
    /\ enqueued = strings_to_print
    /\ shutdown \in BOOLEAN
    /\ at_wrap = IF shutdown THEN strings_to_print ELSE <<>>
    /\ drain_pc = "none"
    /\ in_hand = <<>>
    /\ sent = <<>>
    /\ last_sleep = <<0, 1>>
    /\ last_add = NoAdd

SleepTime ==
    /\ last_sleep' = SleepTimeOf(chars_remaining, shutdown)
    /\ UNCHANGED <<strings_to_print, chars_remaining, shutdown, drain_pc, in_hand,
                   sent, enqueued, at_wrap, last_add>>
    /\ UNCHANGED <<editVars, validVars, sessVars, engVars>>

NextSleep == SleepTime

SpecSleep == InitSleep /\ [][NextSleep]_vars

(***************************************************************************)
(* The example of two overlapping replacements, [0,5) and [3,8), given in  *)
(* either order.                                                           *)
(***************************************************************************)
ExampleLists ==
    {<<Replacement(1, o[1][1], o[1][2], n1), Replacement(2, o[2][1], o[2][2], n2)>> :
        o \in {<<<<0, 5>>, <<3, 8>>>>, <<<<3, 8>>, <<0, 5>>>>},
        n1 \in {<<>>, NewLines(1)}, n2 \in {<<>>, NewLines(2)}}

InitExample == EditStart(ExampleLists) /\ NoSession

SpecExample == InitExample /\ [][Next]_vars

(***************************************************************************)
(* Notions the claims are stated in.                                       *)
(***************************************************************************)
\* two ranges intersect
Overlap(a, b) ==
    a.ending_line > b.starting_line /\ a.starting_line < b.ending_line

PairwiseDisjoint(reps) ==
    \A i, j \in 1..Len(reps) : i # j => ~Overlap(reps[i], reps[j])

\* the entry of reps that is the object of identity id
ById(reps, id) == CHOOSE r \in {reps[i] : i \in 1..Len(reps)} : r.id = id

Ids(reps) == {reps[i].id : i \in 1..Len(reps)}

\* the same replacement objects with the same fields, in whatever order
SameEdits(reps1, reps2) ==
    /\ Len(reps1) = Len(reps2)
    /\ {reps1[i] : i \in 1..Len(reps1)} = {reps2[i] : i \in 1..Len(reps2)}

\* ending_line descending, ties by starting_line descending
InProcessingOrder(reps) ==
    \A i \in 1..Len(reps) - 1 :
        \/ reps[i].ending_line > reps[i + 1].ending_line
        \/ /\ reps[i].ending_line = reps[i + 1].ending_line
           /\ reps[i].starting_line >= reps[i + 1].starting_line

Max(a, b) == IF a > b THEN a ELSE b

\* every arrangement of the members of the set S in a sequence
Arrangements(S) ==
    {f \in [1..Cardinality(S) -> S] : \A i, j \in 1..Cardinality(S) : f[i] = f[j] => i = j}

\* the new_lines of the replacements reps[order[1]], reps[order[2]], ... in a row
RECURSIVE NewLinesInOrder(_, _, _)
NewLinesInOrder(reps, order, i) ==
    IF i > Len(order) THEN <<>>
    ELSE reps[order[i]].new_lines \o NewLinesInOrder(reps, order, i + 1)

\* Every range of the pairwise-disjoint list reps replaced at once in lines, read
\* front to back from the 0-indexed line p on: the insertions at p, in some order;
\* then the new_lines of the range that starts at p, if one does, instead of its
\* lines; else the line p itself.  A set: the order of several insertions at
\* one line is left open.
RECURSIVE ReplacedAtOnce(_, _, _)
ReplacedAtOnce(reps, lines, p) ==
    LET here == {i \in 1..Len(reps) :
                    reps[i].starting_line = p /\ reps[i].ending_line = p}
        inserted == {NewLinesInOrder(reps, order, 1) : order \in Arrangements(here)}
        starting == {i \in 1..Len(reps) :
                        reps[i].starting_line = p /\ reps[i].ending_line > p}
    IN IF starting # {}
       THEN LET i == CHOOSE i \in starting : TRUE
            IN {a \o reps[i].new_lines \o rest :
                  a \in inserted,
                  rest \in ReplacedAtOnce(reps, lines, reps[i].ending_line)}
       ELSE IF p >= Len(lines) THEN inserted
       ELSE {a \o <<lines[p + 1]>> \o rest :
               a \in inserted, rest \in ReplacedAtOnce(reps, lines, p + 1)}

Applied == last_op = "get_updated_file_lines"
Resolved == last_op = "resolve_conflicts"

\* every range lies inside the buffer
InsideBuffer(reps, lines) == \A i \in 1..Len(reps) : reps[i].ending_line <= Len(lines)

\* the list is one insertion: starting_line = ending_line
SingleInsertion(reps) ==
    Len(reps) = 1 /\ reps[1].starting_line = reps[1].ending_line

\* no line of old is missing from new, and they come in the same order
KeepsLines(old, new) ==
    SelectSeq(new, LAMBDA x : x \in {old[i] : i \in 1..Len(old)}) = old

(***************************************************************************)
(* C1.  After resolve_conflicts returns, no two distinct replacements of   *)
(* the list overlap, whatever the list and its order were.                 *)
(***************************************************************************)
C1_NoOverlapAfterResolve ==
    Resolved => PairwiseDisjoint(file_edit.replacements)

\* resolve_conflicts has returned from a list in which two replacements overlapped
C1_Witness ==
    Resolved /\ ~PairwiseDisjoint(before.replacements)

(***************************************************************************)
(* C2.  Once resolve_conflicts has run on the replacements, and whatever   *)
(* subset the review then dropped, get_updated_file_lines does not raise   *)
(* the line-overlap MentatError.                                           *)
(***************************************************************************)
C2_NoOverlapErrorAfterResolve ==
    (Applied /\ resolved) => ~result.raised

\* the applier returned for a list that was constructed with an overlap, then
\* resolved and reviewed, and still holds several replacements
C2_Witness ==
    /\ Applied /\ resolved /\ reviewed
    /\ ~PairwiseDisjoint(constructed)
    /\ Len(before.replacements) >= 2

(***************************************************************************)
(* C3.  resolve_conflicts on a pairwise-disjoint list (its own output in   *)
(* particular) changes no replacement's starting_line, ending_line or      *)
(* new_lines, and adds or removes none.                                    *)
(***************************************************************************)
C3_ResolveIdempotent ==
    (Resolved /\ PairwiseDisjoint(before.replacements))
        => SameEdits(before.replacements, file_edit.replacements)

\* resolve_conflicts has run again on what an earlier run made of an overlapping
\* list (nothing was dropped in between)
C3_Witness ==
    /\ Resolved /\ PairwiseDisjoint(before.replacements)
    /\ ~PairwiseDisjoint(constructed)
    /\ Len(before.replacements) = Len(constructed)

(***************************************************************************)
(* C4.  For a pairwise-disjoint list whose ranges lie inside the buffer,   *)
(* get_updated_file_lines returns the lines obtained by replacing every    *)
(* range at once at its original line numbers.                             *)
(***************************************************************************)
C4_AppliedAsAtOnce ==
    (/\ Applied
     /\ PairwiseDisjoint(before.replacements)
     /\ InsideBuffer(before.replacements, before.file_lines))
        => /\ ~result.raised
           /\ result.lines \in ReplacedAtOnce(before.replacements, before.file_lines, 0)

\* the applier returned for two non-empty disjoint ranges, the later of which
\* changes the number of lines
C4_Witness ==
    /\ Applied
    /\ PairwiseDisjoint(before.replacements)
    /\ InsideBuffer(before.replacements, before.file_lines)
    /\ \E i, j \in 1..Len(before.replacements) :
          LET a == before.replacements[i]
              b == before.replacements[j]
          IN /\ a.starting_line < a.ending_line /\ a.ending_line <= b.starting_line
             /\ b.starting_line < b.ending_line
             /\ Len(a.new_lines) # a.ending_line - a.starting_line
             /\ Len(b.new_lines) # b.ending_line - b.starting_line

(***************************************************************************)
(* C5.  As claimed: a single insertion at line k, for every k >= 0 and any *)
(* buffer, removes no existing line and gives a result of the original     *)
(* length plus len(new_lines).                                             *)
(***************************************************************************)
C5_Original ==
    (Applied /\ SingleInsertion(before.replacements))
        => /\ ~result.raised
           /\ KeepsLines(before.file_lines, result.lines)
           /\ Len(result.lines) = Len(before.file_lines)
                                    + Len(before.replacements[1].new_lines)

(***************************************************************************)
(* C5, amended.  A single insertion at line k removes no existing line; the *)
(* result has max(original length, k) + len(new_lines) lines: the original  *)
(* length plus len(new_lines) when k is within the buffer, and k plus       *)
(* len(new_lines) when k lies beyond its end, the buffer being padded with  *)
(* empty lines up to k first.                                               *)
(***************************************************************************)
C5_InsertionLength ==
    (Applied /\ SingleInsertion(before.replacements))
        => /\ ~result.raised
           /\ KeepsLines(before.file_lines, result.lines)
           /\ Len(result.lines) = Max(Len(before.file_lines),
                                      before.replacements[1].starting_line)
                                    + Len(before.replacements[1].new_lines)

\* the applier returned for an insertion of new lines beyond the end of the buffer
C5_Witness ==
    /\ Applied /\ SingleInsertion(before.replacements)
    /\ before.replacements[1].starting_line > Len(before.file_lines)
    /\ before.replacements[1].new_lines # <<>>

\* the replacement constructed with the range [s, e), as resolve_conflicts left it
AfterResolve(s, e) ==
    LET c == CHOOSE r \in {constructed[i] : i \in 1..Len(constructed)} :
                 r.starting_line = s /\ r.ending_line = e
    IN ById(file_edit.replacements, c.id)

HasRange(r, s, e) == r.starting_line = s /\ r.ending_line = e

\* resolve_conflicts has returned from the list as constructed
ResolvedFromConstructed == Resolved /\ before.replacements = constructed

(***************************************************************************)
(* C6.  As claimed: resolve_conflicts on [0,5) and [3,8) leaves [0,5) as   *)
(* it is and truncates the other to [3,3).                                 *)
(***************************************************************************)
C6_Original ==
    ResolvedFromConstructed
        => /\ HasRange(AfterResolve(0, 5), 0, 5)
           /\ HasRange(AfterResolve(3, 8), 3, 3)

(***************************************************************************)
(* C6, amended.  resolve_conflicts on [0,5) and [3,8) leaves [3,8), which  *)
(* sorts first, as it is and truncates [0,5) to [0,3): the range with the  *)
(* higher ending_line wins and the other is clipped to end where it starts; *)
(* neither's new_lines change.                                             *)
(***************************************************************************)
C6_ExampleResolved ==
    ResolvedFromConstructed
        => /\ HasRange(AfterResolve(3, 8), 3, 8)
           /\ HasRange(AfterResolve(0, 5), 0, 3)
           /\ \A i \in 1..Len(constructed) :
                 ById(file_edit.replacements, constructed[i].id).new_lines
                    = constructed[i].new_lines

\* resolve_conflicts has returned from the example given as [0,5) then [3,8)
C6_Witness ==
    /\ ResolvedFromConstructed
    /\ Len(constructed) = 2
    /\ HasRange(constructed[1], 0, 5) /\ HasRange(constructed[2], 3, 8)

(***************************************************************************)
(* C7.  The order in which the sorted replacements are processed is        *)
(* ending_line descending and, among equal ending_line, starting_line      *)
(* descending, for every list and whatever order it was given in.          *)
(***************************************************************************)
C7_ProcessingOrder ==
    Applied => InProcessingOrder(file_edit.replacements)

(***************************************************************************)
(* C8.  For a list in which two replacements overlap,                      *)
(* get_updated_file_lines raises MentatError and returns no lines.         *)
(***************************************************************************)
C8_OverlapRaises ==
    (Applied /\ ~PairwiseDisjoint(before.replacements))
        => result.raised /\ result.lines = <<>>

\* the applier was called on an overlapping list that was never resolved
C8_Witness ==
    Applied /\ ~resolved /\ ~PairwiseDisjoint(before.replacements)

(***************************************************************************)
(* Notions of the claims about validation.                                 *)
(***************************************************************************)
\* the rule of rejection, stated on the FileEdit and the environment
Rejected(fe) ==
    \/ fe.is_creation /\ fe.file_path \in on_disk
    \/ /\ ~fe.is_creation
       /\ \/ fe.file_path \notin on_disk
          \/ RelPath(fe.file_path, GitRoot) \notin tracked

RenameTargetExists(fe) ==
    fe.rename_file_path # None /\ fe.rename_file_path \in on_disk

RenameCleared(fe) ==
    IF RenameTargetExists(fe) THEN [fe EXCEPT !.rename_file_path = None] ELSE fe

Accepted(edits) == SelectSeq(edits, LAMBDA fe : ~Rejected(fe))

WithRenamesCleared(edits) == [i \in DOMAIN edits |-> RenameCleared(edits[i])]

Range(s) == {s[i] : i \in DOMAIN s}

\* the list that is, or was, handed to get_user_feedback_on_edits
AtReview ==
    IF main_pc = "feedback" THEN file_edits ELSE feedback_edits

C10_RenameClearedProceeds ==
    \A i \in DOMAIN is_valid_calls :
        LET call == is_valid_calls[i]
        IN (~Rejected(call.before) /\ RenameTargetExists(call.before)) =>
              /\ call.ret
              /\ call.after = [call.before EXCEPT !.rename_file_path = None]
              /\ main_exception = "none"
              /\ call.after \in Range(AtReview)

\* C10: what is_valid itself does to such a FileEdit, whatever _main makes
\* of its result
C10_IsValidClearsRename ==
    \A i \in DOMAIN is_valid_calls :
        LET call == is_valid_calls[i]
        IN (~Rejected(call.before) /\ RenameTargetExists(call.before)) =>
              /\ call.ret
              /\ call.after = [call.before EXCEPT !.rename_file_path = None]

\* C10: is_valid has returned for an update, with a replacement, of a tracked
\* file renamed to an existing path
C10_Witness ==
    \E i \in DOMAIN is_valid_calls :
        LET call == is_valid_calls[i]
        IN /\ ~Rejected(call.before) /\ RenameTargetExists(call.before)
           /\ call.before.replacements # <<>>
           /\ main_pc \in {"feedback", "failed"}

(***************************************************************************)
(* Notions of the claims about the review.                                 *)
(***************************************************************************)
\* filter_replacements is the call that returned last
Filtered == last_op = "filter_replacements"

\* the edit is still a creation, a deletion, a rename or holds a replacement
SomethingLeft(fe) ==
    \/ fe.is_creation
    \/ fe.is_deletion
    \/ fe.rename_file_path # None
    \/ Len(fe.replacements) > 0

\* the prompt of text was presented and answered no
Declined(text) ==
    \E i \in DOMAIN prompts : prompts[i] = text /\ ~answers[i]

\* the prompts after the first one of text
PromptsAfter(text) ==
    LET i == CHOOSE j \in DOMAIN prompts : prompts[j] = text
    IN SubSeq(prompts, i + 1, Len(prompts))

\* C11: filter_replacements returns True exactly when the edit it leaves is
\* still a creation, still a deletion, still has a rename target or still has
\* a replacement; stated for the edits that are not creations, whose first
\* prompt is the one of the deletion.
C11_KeptIffSomethingLeft ==
    (Filtered /\ ~before.file_edit.is_creation)
        => (kept <=> SomethingLeft(file_edit))

\* C11: the same for every FileEdit, creations included
C11_KeptIffSomethingLeftOfAll ==
    Filtered => (kept <=> SomethingLeft(file_edit))

\* C11: an update whose replacements were all declined is reported not kept
C11_AllDeclinedNotKept ==
    (/\ Filtered
     /\ ~SomethingLeft([before.file_edit EXCEPT !.replacements = <<>>])
     /\ \A i \in DOMAIN answers : ~answers[i])
        => ~kept

\* C12: after "Delete this file?" is answered no, the rename prompt (when a
\* rename is set) and one prompt for each replacement are presented, and what
\* is returned is computed from what survives.
C12_DeclinedDeleteGoesOn ==
    (Filtered /\ Declined("Delete this file?"))
        => /\ PromptsAfter("Delete this file?")
                = (IF before.file_edit.rename_file_path # None
                   THEN <<"Rename this file?">> ELSE <<>>)
                  \o [i \in 1..Len(before.replacements) |-> "Keep this change?"]
           /\ kept <=> SomethingLeft(file_edit)

\* C12: a deletion that carries a rename and a replacement was reviewed and its
\* deletion declined
C12_DeletionDeclined ==
    /\ Filtered /\ Declined("Delete this file?")
    /\ before.file_edit.rename_file_path # None
    /\ before.replacements # <<>>

(***************************************************************************)
(* Notions of the claims about the lifecycle.                              *)
(***************************************************************************)
UnfinishedMain == {id \in 1..MaxCalls : Unfinished(main_st[id])}
UnfinishedStop == {id \in 1..MaxCalls : Unfinished(stop_st[id])}

IsPrefix(s, full) == Len(s) <= Len(full) /\ s = SubSeq(full, 1, Len(s))

\* the steps of a stop in the order the specification gives them
StopSequence == <<"cancel", "cleared", "stream_stopped", "returned", "handle_cleared">>

\* C13: at any time at most one main task and at most one stop task are
\* unfinished, an unfinished task is the one its handle names, and is_stopped
\* is true exactly when neither handle is set.
C13_OneTaskOfEachKind ==
    /\ Cardinality(UnfinishedMain) <= 1
    /\ Cardinality(UnfinishedStop) <= 1
    /\ \A id \in UnfinishedMain : main_task = id
    /\ \A id \in UnfinishedStop : stop_task = id
    /\ IsStopped(main_task, stop_task) <=> (main_task = NoTask /\ stop_task = NoTask)

\* C13: start() was refused while a main task and a stop task were both
\* unfinished
C13_Witness ==
    /\ ran = <<"client_start", "refused">>
    /\ UnfinishedMain # {} /\ UnfinishedStop # {}

\* C14: whenever a stop task is outstanding, is_stopped eventually becomes
\* true, whatever calls of start() and stop() come later.
C14_StopLeadsToStopped ==
    (stop_task # NoTask) ~> IsStopped(main_task, stop_task)

\* C14: the least of it, that the stop task itself ends and clears its handle
C14_StopTaskEnds ==
    (stop_task # NoTask) ~> (stop_task = NoTask)

\* C15: every stop task cancels the main task, then sees its handle cleared,
\* then stops the stream, and only then returns and has its own handle
\* cleared; the cancellation of the main task is not reported as an error.
C15_StopOrder ==
    /\ \A id \in 1..MaxCalls : IsPrefix(stop_log[id], StopSequence)
    /\ "CancelledError in cleanup_main" \notin errors

\* C15: the order alone, for the stop tasks that get as far as the cancel
C15_OrderOnceCancelled ==
    \A id \in 1..MaxCalls :
        (stop_log[id] # <<>> /\ stop_log[id][1] = "cancel")
            => IsPrefix(stop_log[id], StopSequence)

\* C16: once cleanup_main has run for a main task that raised, the handle is
\* None, the exception has been reported, no main task is unfinished, and
\* with no stop task outstanding is_stopped is true; and a start() that finds
\* the handle None creates a main task.
C16_FailedMainLeavesStopped ==
    /\ [](\A id \in 1..MaxCalls :
            (ran = <<"main_cb", id>> /\ main_st[id] = "raised")
                => /\ main_task = NoTask
                   /\ UnfinishedMain = {}
                   /\ "Main task threw an exception" \in errors
                   /\ stop_task = NoTask => IsStopped(main_task, stop_task))
    /\ [][(/\ IsNext("client_start", NoTask)
            /\ Len(ready') <= Len(ready)
            /\ main_task = NoTask)
              => /\ ran' = <<"client_start", "accepted">>
                 /\ main_task' = n_main + 1
                 /\ main_st'[main_task'] = "unstarted"]_vars

\* C16: the first main task raised, and a later start() was accepted
C16_Witness ==
    /\ main_st[1] = "raised"
    /\ ran = <<"client_start", "accepted">>
    /\ main_task = 2

(***************************************************************************)
(* Notions of the claims about the StreamingPrinter.                       *)
(***************************************************************************)
\* sleep_time has been called
SleepTimeCalled == last_sleep # <<0, 1>>

RatLeq(x, y) == ~RatLess(y, x)

\* C17: once wrap_it_up has been called on a non-empty backlog, print_lines
\* does not exit before every unit enqueued before the call has been sent.
C17_BacklogDrainedBeforeExit ==
    (drain_pc = "exited" /\ at_wrap # <<>>)
        => /\ strings_to_print = <<>>
           /\ sent = enqueued

\* C17: print_lines has exited after a wrap_it_up that found units on the deque
C17_ExitedAfterWrap ==
    drain_pc = "exited" /\ at_wrap # <<>>

\* C18: sleep_time returns a value between min_sleep = 0.002 and max_sleep
\* (0.006 before shutdown); it returns no more for a backlog than for any
\* smaller one; and once shutdown is set it returns 0.002.
C18_SleepTimeBounded ==
    SleepTimeCalled
        => /\ RatLeq(<<2, 1000>>, last_sleep)
           /\ RatLeq(last_sleep, <<6, 1000>>)
           /\ \A smaller \in 0..chars_remaining :
                 RatLeq(last_sleep, SleepTimeOf(smaller, shutdown))
           /\ shutdown => RatEq(last_sleep, <<2, 1000>>)

\* C18: sleep_time was called after shutdown with a backlog for which it
\* returns more before shutdown
C18_Witness ==
    /\ SleepTimeCalled /\ shutdown
    /\ RatLess(<<2, 1000>>, SleepTimeOf(chars_remaining, FALSE))

\* C18: and with a backlog so large that the lower clamp decides
C18_WitnessLargeBacklog ==
    /\ SleepTimeCalled /\ ~shutdown
    /\ RatLess(<<1, chars_remaining + 1>>, <<2, 1000>>)

(***************************************************************************)
(* Notions of the claims about what resolve_conflicts changes.             *)
(***************************************************************************)
\* the replacement r as it was when the last call started
Old(r) == ById(before.replacements, r.id)

\* the list is two insertions at one line
TwoInsertionsAtOneLine(reps) ==
    /\ Len(reps) = 2
    /\ reps[1].starting_line = reps[1].ending_line
    /\ reps[2].starting_line = reps[2].ending_line
    /\ reps[1].starting_line = reps[2].starting_line

C20_FirstSortedComesFirst ==
    (Applied /\ TwoInsertionsAtOneLine(before.replacements))
        => LET first == file_edit.replacements[1]
               second == file_edit.replacements[2]
               k == first.starting_line
           IN /\ ~result.raised
              /\ SubSeq(result.lines, k + 1,
                        k + Len(first.new_lines) + Len(second.new_lines))
                    = first.new_lines \o second.new_lines

\* C20: resolve_conflicts keeps both insertions as they are and prints one
\* notice, the new_lines of the one that sorts first before the other's
C20_InsertionsKeptAndNoticed ==
    (Resolved /\ TwoInsertionsAtOneLine(before.replacements))
        => /\ SameEdits(before.replacements, file_edit.replacements)
           /\ notices = <<file_edit.replacements[1].new_lines
                            \o file_edit.replacements[2].new_lines>>

\* C20: two insertions at one line, each with lines of its own, were resolved
\* and applied
C20_TwoInsertionsApplied ==
    /\ Applied /\ resolved /\ TwoInsertionsAtOneLine(before.replacements)
    /\ before.replacements[1].new_lines # <<>>
    /\ before.replacements[2].new_lines # <<>>

(***************************************************************************)
(* More claims about the review.                                           *)
(***************************************************************************)
\* the last filter_replacements got as far as its loop over the replacements
ReachedLoop ==
    /\ Filtered
    /\ ~Declined("Create this file?")
    /\ ~Declined("Delete this file?")

\* the prompts of the last review that came before the loop's
PromptsBeforeLoop == Len(prompts) - Len(before.replacements)

\* the ids of the replacements whose prompt was answered yes
AcceptedIds ==
    {before.replacements[i].id :
        i \in {j \in DOMAIN before.replacements : answers[PromptsBeforeLoop + j]}}

\* C21: a filter_replacements that reaches its loop presents one "Keep this
\* change?" for each replacement, after every other prompt, and leaves as the
\* edit's replacements those answered yes, unmodified and in the order they
\* had.
C21_AcceptedSubsequence ==
    ReachedLoop
        => /\ PromptsBeforeLoop >= 0
           /\ \A i \in DOMAIN prompts :
                 (prompts[i] = "Keep this change?") <=> (i > PromptsBeforeLoop)
           /\ file_edit.replacements
                 = SelectSeq(before.replacements, LAMBDA r : r.id \in AcceptedIds)

\* C21: of two replacements one was accepted and one declined
C21_Witness ==
    /\ ReachedLoop
    /\ Len(before.replacements) = 2
    /\ Len(file_edit.replacements) = 1

\* C22: when "Create this file?" is declined, filter_replacements returns
\* False having presented no other prompt and leaves the edit as it was.
C22_DeclinedCreationAbandons ==
    (Filtered /\ Declined("Create this file?"))
        => /\ ~kept
           /\ prompts = <<"Create this file?">>
           /\ file_edit = before.file_edit

\* C22: the creation declined carried a rename and replacements
C22_Witness ==
    /\ Filtered /\ Declined("Create this file?")
    /\ before.file_edit.rename_file_path # None
    /\ before.replacements # <<>>

(***************************************************************************)
(* More claims about the session's lifecycle.                              *)
(***************************************************************************)
\* this step runs the client's call of kind at the head of the ready queue
CallRuns(kind) == IsNext(kind, NoTask) /\ Len(ready') <= Len(ready)

\* the call that runs in this step is one the claim says is refused
RefusedCall ==
    \/ CallRuns("client_start") /\ main_task # NoTask
    \/ CallRuns("client_stop") /\ stop_task # NoTask
    \/ CallRuns("client_stop") /\ IsStopped(main_task, stop_task)

\* C23: start() while the main handle is set, stop() while the stop handle is
\* set and stop() while the session is stopped create no task, schedule
\* nothing and leave both handles as they were.
C23_RefusedCallChangesNothing ==
    [][RefusedCall
          => /\ main_task' = main_task /\ stop_task' = stop_task
             /\ n_main' = n_main /\ n_stop' = n_stop
             /\ main_st' = main_st /\ stop_st' = stop_st
             /\ ready' = Tail(ready)]_vars

\* C23: a stop() was refused while a stop task was outstanding and a main
\* task was still there
C23_Witness ==
    /\ ran = <<"client_stop", "refused">>
    /\ stop_task # NoTask /\ UnfinishedStop # {}
    /\ main_task # NoTask

(***************************************************************************)
(* Claims about the commands.                                              *)
(***************************************************************************)
\* the inputs so far that were commands
CommandInputs == SelectSeq(user_inputs, IsCommandInput)

\* C24: for every input that starts with "/" the loop applies a command, asks
\* the model for nothing on that input and awaits the next input, _main still
\* running: a command has been applied for each such input so far, and after
\* such an input no exception has escaped and the loop is at
\* collect_user_input.
C24_CommandDispatched ==
    /\ Len(applied) = Len(CommandInputs)
    /\ (user_inputs # <<>> /\ IsCommandInput(user_inputs[Len(user_inputs)]))
          => main_pc = "collect_user_input" /\ main_exception = "none"

\* C24: the user typed a command line and the loop has taken it
C24_CommandTyped ==
    /\ user_inputs # <<>>
    /\ IsCommandInput(user_inputs[Len(user_inputs)])
    /\ user_inputs[Len(user_inputs)].data = <<"/", "h", "e", "l", "p">>

(***************************************************************************)
(* More claims about the StreamingPrinter.                                 *)
(***************************************************************************)
\* C25: whatever the interleaving of add_string with the steps of print_lines,
\* the units sent are a prefix of the units enqueued, in their order, and
\* with the units still on the deque they are all the units enqueued; a step
\* sends at most one unit; and every unit enqueued is sent in the end unless
\* wrap_it_up is called.
C25_SentInOrderAndInTheEnd ==
    /\ [](IsPrefix(sent, enqueued) /\ sent \o strings_to_print = enqueued)
    /\ [][Len(sent') <= Len(sent) + 1]_vars
    /\ \A n \in 1..MaxUnits :
          (Len(enqueued) >= n) ~> (Len(sent) >= n \/ shutdown)

\* C25: a unit is being sent, others were sent before it and others wait on
\* the deque
C25_Witness ==
    /\ ~shutdown
    /\ drain_pc = "sending"
    /\ Len(sent) >= 2
    /\ strings_to_print # <<>>

\* this step is a call of add_string, or changes nothing: every other step of
\* the printer changes one of these
AddStringStep ==
    /\ last_add'.called
    /\ UNCHANGED <<shutdown, drain_pc, in_hand, sent, at_wrap, last_sleep>>

\* C26: a call of add_string after wrap_it_up, and a call with an empty
\* string whatever its end, leaves the deque and chars_remaining as they were.
C26_RefusedAddChangesNothing ==
    [][(AddStringStep /\ (shutdown \/ last_add'.string = <<>>))
          => UNCHANGED <<strings_to_print, chars_remaining>>]_vars

\* C26: add_string was called with a string after wrap_it_up, units waiting
\* on the deque
C26_Witness ==
    /\ last_add.called /\ last_add.shutdown
    /\ last_add.string # <<>>
    /\ last_add.end # <<>>
    /\ strings_to_print # <<>>

(***************************************************************************)
(* More claims about the edit engine.                                      *)
(***************************************************************************)
\* 0 <= starting_line <= ending_line, of every replacement of reps
WellFormed(reps) ==
    \A i \in DOMAIN reps :
        0 <= reps[i].starting_line /\ reps[i].starting_line <= reps[i].ending_line

AfterResolveCall == last_op = "resolve_conflicts" /\ WellFormed(before.replacements)

\* C27 (as stated): replacements that satisfy 0 <= starting_line <=
\* ending_line before resolve_conflicts satisfy it after the call and after
\* every assignment the call makes.
C27_Original ==
    AfterResolveCall
        => /\ WellFormed(file_edit.replacements)
           /\ \A k \in DOMAIN resolve_steps : WellFormed(resolve_steps[k].replacements)

\* C27 (amended): replacements that satisfy 0 <= starting_line <=
\* ending_line before resolve_conflicts satisfy it after the call, after the
\* sort and after every truncation the loop has completed (line 187); after
\* the first assignment of a truncation (line 186) the starting line is
\* still >= 0 but may be above the ending line.
C27_WellFormedAfterTruncations ==
    AfterResolveCall
        => /\ WellFormed(file_edit.replacements)
           /\ resolve_steps # <<>>
           /\ resolve_steps[Len(resolve_steps)].replacements = file_edit.replacements
           /\ \A k \in DOMAIN resolve_steps :
                 /\ resolve_steps[k].line # 186
                       => WellFormed(resolve_steps[k].replacements)
                 /\ \A i \in DOMAIN resolve_steps[k].replacements :
                       /\ resolve_steps[k].replacements[i].starting_line >= 0
                       /\ resolve_steps[k].replacements[i].ending_line >= 0

\* C27: resolve_conflicts has truncated a replacement whose start was above
\* the start of the one it overlapped
C27_Witness ==
    /\ AfterResolveCall
    /\ \E k \in DOMAIN resolve_steps :
          /\ resolve_steps[k].line = 186
          /\ ~WellFormed(resolve_steps[k].replacements)

\* C28: get_updated_file_lines leaves the list it is given as it was, in
\* length and content, when it returns lines and when it raises.
C28_CallerListUnchanged ==
    Applied => file_lines = before.file_lines

\* C28: the applier was called with a replacement that ends past the end of
\* the list it was given
C28_PastTheEnd ==
    /\ Applied
    /\ \E i \in DOMAIN before.replacements :
          before.replacements[i].ending_line > Len(before.file_lines)

\* C29: while a stop task is outstanding (its handle set, from stop() to
\* cleanup_stop) no step creates a main task.
C29_NoStartWhileStopping ==
    [][stop_task # NoTask => n_main' = n_main /\ main_task' \in {main_task, NoTask}]_vars

\* C29: start() has run with the main handle cleared and a stop task
\* outstanding
C29_StartWhileStopping ==
    /\ ran[1] = "client_start"
    /\ stop_task # NoTask /\ UnfinishedStop # {}
    /\ n_main >= 2

\* C30: chars_remaining is the number of units on the deque whenever
\* print_lines is not between its popleft and the return of stream.send, also
\* when its task is cancelled; and chars_remaining is never negative.
C30_CharsRemainingCountsDeque ==
    /\ chars_remaining >= 0
    /\ drain_pc # "sending" => chars_remaining = Len(strings_to_print)

\* C30: the task of print_lines was cancelled after it had sent units, with
\* units left on the deque
C30_CancelledWithBacklog ==
    /\ drain_pc = "cancelled"
    /\ sent # <<>>
    /\ strings_to_print # <<>>

\* without cancellation the count is kept
C30_CountKeptWithoutCancel ==
    /\ chars_remaining >= 0
    /\ drain_pc # "sending" => chars_remaining = Len(strings_to_print)
    /\ drain_pc = "sending" => chars_remaining = Len(strings_to_print) + 1

(***************************************************************************)
(* Claims about the MentatEngine.                                          *)
(***************************************************************************)
\* this step is a call of _handle_exit
SignalHandled == signals' = signals + 1

\* C31: the first exit signal sets _should_exit and leaves _force_exit, a
\* later one sets _force_exit, so _force_exit implies _should_exit; once
\* _should_exit is set _run ends, with or without a second signal, and when
\* it ends unforced the main loop has exited and every tracked task is
\* cancelled; and with _force_exit set the next test of the shutdown wait
\* ends it, cancelled or not.
C31_TwoStageExit ==
    /\ [](force_exit => should_exit)
    /\ [][SignalHandled
            => /\ should_exit'
               /\ force_exit' = should_exit]_vars
    /\ [][(should_exit' # should_exit \/ force_exit' # force_exit)
            => SignalHandled]_vars
    /\ should_exit ~> (run_pc = "stopped")
    /\ [](run_pc = "stopped"
            => /\ should_exit
               /\ wait_ended \in {"all_cancelled", "forced"}
               /\ wait_ended = "forced" <=> force_exit
               /\ wait_ended = "all_cancelled"
                     => \A task \in tasks : heartbeat_st = "cancelled")
    /\ [][(force_exit /\ run_pc = "shutdown_ready" /\ run_pc' # run_pc)
            => run_pc' = "stopped"]_vars

\* C31: _run has ended after two signals with the heartbeat task, whose
\* cancellation was requested, not yet cancelled
C31_Witness ==
    /\ run_pc = "stopped"
    /\ signals = 2
    /\ wait_ended = "forced"
    /\ tasks # {}
    /\ heartbeat_st # "cancelled"

\* _run has ended after a single signal, the heartbeat task cancelled
C31_EndedAfterOneSignal ==
    /\ run_pc = "stopped"
    /\ signals = 1
    /\ wait_ended = "all_cancelled"
    /\ heartbeat_st = "cancelled"

====
